---- MODULE Spec2Model ----
(***************************************************************************)
(* tratihubis: migration of Trac tickets (CSV export) to Github issues.    *)
(*                                                                         *)
(* The module models migrateTickets() of tratihubis.py as a state machine: *)
(* the load phase (comment CSV, existing issues and milestones, user       *)
(* mapping, label mapping), then the loop over the rows of the ticket CSV, *)
(* one action per call site of the tracker.  The tracker (PyGithub's `hub` *)
(* and `repo`) is modelled by what the program sees of it.  Text is kept   *)
(* as strings, and strip, split and long are computed character by         *)
(* character.                                                              *)
(***************************************************************************)
EXTENDS Integers, Sequences, FiniteSets, TLC

(***************************************************************************)
(* Bounds of the model.                                                    *)
(***************************************************************************)
\* most data rows of a ticket CSV
MaxTickets == 2
\* largest Trac ticket id in a CSV and in the id range to convert
MaxTicketId == 2
\* most issues the repository holds before the first run
MaxExistingIssues == 1
\* most rows of a comment CSV
MaxComments == 2
\* most groups of a label definition made of groups
MaxGroups == 2
\* most tokens of a label definition made of tokens
MaxTokens == 6
\* most entries of a user mapping
MaxMappings == 2
\* most pieces of a text to translate
MaxPieces == 5

(***************************************************************************)
(* Python's strings.                                                       *)
(***************************************************************************)
Whitespace == {" ", "\t"}

CharAt(s, i) == SubSeq(s, i, i)

RECURSIVE LStrip(_)
LStrip(s) ==
    IF Len(s) > 0 /\ Head(s) \in Whitespace THEN LStrip(Tail(s)) ELSE s

RECURSIVE RStrip(_)
RStrip(s) ==
    IF Len(s) > 0 /\ CharAt(s, Len(s)) \in Whitespace
    THEN RStrip(SubSeq(s, 1, Len(s) - 1))
    ELSE s

\* str.strip()
Strip(s) == RStrip(LStrip(s))

\* str.find(sep, i - 1) + 1: the first position >= i of sep in s, or 0
RECURSIVE Find(_, _, _)
Find(s, sep, i) ==
    IF i > Len(s) THEN 0
    ELSE IF CharAt(s, i) = sep THEN i
    ELSE Find(s, sep, i + 1)

\* str.split(sep) for a separator of one character
RECURSIVE Split(_, _)
Split(s, sep) ==
    LET at == Find(s, sep, 1)
    IN  IF at = 0 THEN <<s>>
        ELSE <<SubSeq(s, 1, at - 1)>> \o Split(SubSeq(s, at + 1, Len(s)), sep)

Digits == <<"0", "1", "2", "3", "4", "5", "6", "7", "8", "9">>

IsDigit(c) == \E d \in 1..10 : Digits[d] = c

DigitValue(c) == (CHOOSE d \in 1..10 : Digits[d] = c) - 1

RECURSIVE IsDigits(_)
IsDigits(s) == Len(s) = 0 \/ (IsDigit(Head(s)) /\ IsDigits(Tail(s)))

RECURSIVE DigitsValue(_, _)
DigitsValue(s, acc) ==
    IF Len(s) = 0 THEN acc
    ELSE DigitsValue(Tail(s), 10 * acc + DigitValue(Head(s)))

\* long(text) succeeds: decimal digits, blanks around them allowed
IsLong(text) == Len(Strip(text)) > 0 /\ IsDigits(Strip(text))

\* long(text)
Long(text) == DigitsValue(Strip(text), 0)

\* '%d' % n, the text of a CSV cell that holds the number n
RECURSIVE Decimal(_)
Decimal(n) ==
    IF n < 10 THEN Digits[n + 1] ELSE Decimal(n \div 10) \o Digits[(n % 10) + 1]

\* dict.get(key): the entries of a dict are a function on its keys
Has(dict, key) == key \in DOMAIN dict

EmptyDict == <<>>

(***************************************************************************)
(* Errors.  A raised exception ends migrateTickets; main() logs it and     *)
(* returns exit code 1.                                                    *)
(***************************************************************************)
NoError == [type |-> "none", option |-> "", file |-> "", row |-> 0]

\* _ConfigError(option, message)
ConfigError(option) ==
    [type |-> "_ConfigError", option |-> option, file |-> "", row |-> 0]

\* _CsvDataError with the row named as rowIndex, counted from 0
CsvDataErrorFromZero(csvPath, rowIndex) ==
    [type |-> "_CsvDataError", option |-> "", file |-> csvPath, row |-> rowIndex]

\* _CsvDataError(csvPath, rowIndex, message): the message names the row as rowIndex + 1
CsvDataError(csvPath, rowIndex) ==
    [type |-> "_CsvDataError", option |-> "", file |-> csvPath, row |-> rowIndex + 1]

\* the ValueError of long() for a text that is no number: its message holds
\* the text, neither the file nor the row
ValueError == [type |-> "ValueError", option |-> "", file |-> "", row |-> 0]

\* an exception raised by a call of the tracker
GithubException == [type |-> "GithubException", option |-> "", file |-> "", row |-> 0]

OPTION_LABELS == "labels"
OPTION_USERS == "users"

(***************************************************************************)
(* The CSV readers.  A CSV file is the sequence of its rows, the header    *)
(* first, and a row is the sequence of its cells.                          *)
(***************************************************************************)
TICKET_COLUMN_COUNT == 9
COMMENT_COLUMN_COUNT == 4

NoTicket ==
    [id |-> 0, type |-> "", owner |-> "", reporter |-> "", milestone |-> "",
     status |-> "", resolution |-> "", summary |-> "", description |-> ""]

\* _tracTicketMaps checking the length of all rows before it yields the
\* first ticket
RECURSIVE _tracTicketMapsChecked(_, _)
_tracTicketMapsChecked(ticketsCsv, rowIndex) ==
    LET wrong == {k \in 1..Len(ticketsCsv) : Len(ticketsCsv[k]) # TICKET_COLUMN_COUNT}
        first == CHOOSE k \in wrong : \A j \in wrong : k <= j
    IN  IF rowIndex >= Len(ticketsCsv)
        THEN [kind |-> "stop", ticketMap |-> NoTicket, next |-> rowIndex, error |-> NoError]
        ELSE IF wrong # {}
        THEN [kind |-> "raise", ticketMap |-> NoTicket, next |-> first,
              error |-> CsvDataError("tickets", first - 1)]
        ELSE LET row == ticketsCsv[rowIndex + 1]
                 hasReadHeader == rowIndex > 0
             IN  IF ~hasReadHeader
                 THEN _tracTicketMapsChecked(ticketsCsv, rowIndex + 1)
                 ELSE IF ~IsLong(row[1])
                 THEN [kind |-> "raise", ticketMap |-> NoTicket, next |-> rowIndex + 1,
                       error |-> ValueError]
                 ELSE [kind |-> "yield",
                       ticketMap |->
                           [id |-> Long(row[1]), type |-> row[2], owner |-> row[3],
                            reporter |-> row[4], milestone |-> row[5], status |-> row[6],
                            resolution |-> row[7], summary |-> row[8],
                            description |-> row[9]],
                       next |-> rowIndex + 1, error |-> NoError]

\* _tracTicketMaps reading the rows after the header from the last to the first
RECURSIVE _tracTicketMapsReversed(_, _)
_tracTicketMapsReversed(ticketsCsv, rowIndex) ==
    IF rowIndex >= Len(ticketsCsv)
    THEN [kind |-> "stop", ticketMap |-> NoTicket, next |-> rowIndex, error |-> NoError]
    ELSE LET hasReadHeader == rowIndex > 0
             row == ticketsCsv[IF hasReadHeader
                               THEN Len(ticketsCsv) + 1 - rowIndex ELSE 1]
         IN  IF Len(row) # TICKET_COLUMN_COUNT
             THEN [kind |-> "raise", ticketMap |-> NoTicket, next |-> rowIndex + 1,
                   error |-> CsvDataError("tickets", rowIndex)]
             ELSE IF ~hasReadHeader
             THEN _tracTicketMapsReversed(ticketsCsv, rowIndex + 1)
             ELSE IF ~IsLong(row[1])
             THEN [kind |-> "raise", ticketMap |-> NoTicket, next |-> rowIndex + 1,
                   error |-> ValueError]
             ELSE [kind |-> "yield",
                   ticketMap |->
                       [id |-> Long(row[1]), type |-> row[2], owner |-> row[3],
                        reporter |-> row[4], milestone |-> row[5], status |-> row[6],
                        resolution |-> row[7], summary |-> row[8],
                        description |-> row[9]],
                   next |-> rowIndex + 1, error |-> NoError]

\* The generator _tracTicketMaps resumed with rowIndex rows already read: it
\* yields the next ticket map, raises, or is exhausted.  `next` is the
\* number of rows read afterwards.
RECURSIVE _tracTicketMaps(_, _)
_tracTicketMaps(ticketsCsv, rowIndex) ==
    IF rowIndex >= Len(ticketsCsv)
    THEN [kind |-> "stop", ticketMap |-> NoTicket, next |-> rowIndex, error |-> NoError]
    ELSE LET row == ticketsCsv[rowIndex + 1]
             hasReadHeader == rowIndex > 0
         IN  IF Len(row) # TICKET_COLUMN_COUNT
             THEN [kind |-> "raise", ticketMap |-> NoTicket, next |-> rowIndex + 1,
                   error |-> CsvDataError("tickets", rowIndex)]
             ELSE IF ~hasReadHeader
             THEN _tracTicketMaps(ticketsCsv, rowIndex + 1)
             ELSE IF ~IsLong(row[1])
             THEN [kind |-> "raise", ticketMap |-> NoTicket, next |-> rowIndex + 1,
                   error |-> ValueError]
             ELSE [kind |-> "yield",
                   ticketMap |->
                       [id |-> Long(row[1]), type |-> row[2], owner |-> row[3],
                        reporter |-> row[4], milestone |-> row[5], status |-> row[6],
                        resolution |-> row[7], summary |-> row[8],
                        description |-> row[9]],
                   next |-> rowIndex + 1, error |-> NoError]

\* _createTicketToCommentsMap(commentsCsvPath) from row rowIndex on, with the
\* map built so far.  A comments file that is not configured (None) is the
\* empty sequence: both give the empty map.
RECURSIVE _createTicketToCommentsMap(_, _, _)
_createTicketToCommentsMap(commentsCsv, rowIndex, result) ==
    IF rowIndex >= Len(commentsCsv)
    THEN [result |-> result, error |-> NoError]
    ELSE LET row == commentsCsv[rowIndex + 1]
             hasReadHeader == rowIndex > 0
         IN  IF Len(row) # COMMENT_COLUMN_COUNT
             THEN [result |-> result, error |-> CsvDataError("comments", rowIndex)]
             ELSE IF ~hasReadHeader
             THEN _createTicketToCommentsMap(commentsCsv, rowIndex + 1, result)
             ELSE IF ~IsLong(row[1])
             THEN [result |-> result, error |-> ValueError]
             ELSE LET commentMap ==
                          [id |-> Long(row[1]), author |-> row[3], body |-> row[4]]
                      ticketId == commentMap.id
                      ticketComments ==
                          IF Has(result, ticketId) THEN result[ticketId] ELSE <<>>
                  IN  _createTicketToCommentsMap(commentsCsv, rowIndex + 1,
                          (ticketId :> Append(ticketComments, commentMap)) @@ result)


(***************************************************************************)
(* The tracker as the program sees it: `hub` knows the Github users,       *)
(* `repo` holds issues, milestones and labels.  A call is logged with its  *)
(* name and arguments.                                                     *)
(***************************************************************************)
\* the Github users hub.get_user(login) finds
HubUsers == {"hugo", "sepp", "roskakori"}

\* the names of the labels repo.get_labels() lists
RepoLabels == {"bug", "enhancement", "wontfix"}

Call(name, args) == [name |-> name, args |-> args]

\* a call that returned, a call that raised an exception
Made(call) == [raised |-> FALSE] @@ call

Raised(call) == [raised |-> TRUE] @@ call

ReadCalls == {"get_issues", "get_milestones", "get_labels", "get_user"}

MutatingCalls == {"create_milestone", "create_issue", "edit", "create_comment"}

(***************************************************************************)
(* Mapping users.                                                          *)
(***************************************************************************)
\* _validateGithubUser without the test of _validatedGithubUsers
_validateGithubUserUncached(validated, githubUser) ==
    IF githubUser \in HubUsers
    THEN [validated |-> validated \cup {githubUser},
          calls |-> <<Made(Call("get_user", [login |-> githubUser]))>>,
          error |-> NoError]
    ELSE [validated |-> validated,
          calls |-> <<Raised(Call("get_user", [login |-> githubUser]))>>,
          error |-> ConfigError(OPTION_USERS)]

\* _validateGithubUser(hub, tracUser, githubUser) with the set
\* _validatedGithubUsers passed in and out
_validateGithubUser(validated, githubUser) ==
    IF githubUser \in validated
    THEN [validated |-> validated, calls |-> <<>>, error |-> NoError]
    ELSE IF githubUser \in HubUsers
    THEN [validated |-> validated \cup {githubUser},
          calls |-> <<Made(Call("get_user", [login |-> githubUser]))>>,
          error |-> NoError]
    ELSE [validated |-> validated,
          calls |-> <<Raised(Call("get_user", [login |-> githubUser]))>>,
          error |-> ConfigError(OPTION_USERS)]

\* the loop of _createTracToGithubUserMap with a mapping that is empty or
\* blank skipped
RECURSIVE UserMappingsSkipEmpty(_, _, _, _, _)
UserMappingsSkipEmpty(mappings, i, result, validated, calls) ==
    IF i > Len(mappings)
    THEN [result |-> result, validated |-> validated, calls |-> calls,
          error |-> NoError]
    ELSE LET parts == Split(mappings[i], ":")
             words == [k \in 1..Len(parts) |-> Strip(parts[k])]
             failed == [result |-> result, validated |-> validated,
                        calls |-> calls, error |-> ConfigError(OPTION_USERS)]
         IN  IF words = <<"">>
             THEN UserMappingsSkipEmpty(mappings, i + 1, result, validated, calls)
             ELSE IF Len(words) # 2 THEN failed
             ELSE LET tracUser == words[1]
                      githubUser == words[2]
                  IN  IF Len(tracUser) = 0 THEN failed
                      ELSE IF Len(githubUser) = 0 THEN failed
                      ELSE IF Has(result, tracUser) THEN failed
                      ELSE IF githubUser = "*"
                      THEN UserMappingsSkipEmpty(mappings, i + 1,
                               (tracUser :> githubUser) @@ result, validated, calls)
                      ELSE LET checked == _validateGithubUser(validated, githubUser)
                           IN  IF checked.error # NoError
                               THEN [result |-> (tracUser :> githubUser) @@ result,
                                     validated |-> checked.validated,
                                     calls |-> calls \o checked.calls,
                                     error |-> checked.error]
                               ELSE UserMappingsSkipEmpty(mappings, i + 1,
                                        (tracUser :> githubUser) @@ result,
                                        checked.validated, calls \o checked.calls)

\* the loop of _createTracToGithubUserMap with a second mapping of a Trac
\* user let through when it names the same Github user
RECURSIVE UserMappingsSameTarget(_, _, _, _, _)
UserMappingsSameTarget(mappings, i, result, validated, calls) ==
    IF i > Len(mappings)
    THEN [result |-> result, validated |-> validated, calls |-> calls,
          error |-> NoError]
    ELSE LET parts == Split(mappings[i], ":")
             words == [k \in 1..Len(parts) |-> Strip(parts[k])]
             failed == [result |-> result, validated |-> validated,
                        calls |-> calls, error |-> ConfigError(OPTION_USERS)]
         IN  IF Len(words) # 2 THEN failed
             ELSE LET tracUser == words[1]
                      githubUser == words[2]
                  IN  IF Len(tracUser) = 0 THEN failed
                      ELSE IF Len(githubUser) = 0 THEN failed
                      ELSE IF Has(result, tracUser) /\ result[tracUser] # githubUser
                      THEN failed
                      ELSE IF githubUser = "*"
                      THEN UserMappingsSameTarget(mappings, i + 1,
                               (tracUser :> githubUser) @@ result, validated, calls)
                      ELSE LET checked == _validateGithubUser(validated, githubUser)
                           IN  IF checked.error # NoError
                               THEN [result |-> (tracUser :> githubUser) @@ result,
                                     validated |-> checked.validated,
                                     calls |-> calls \o checked.calls,
                                     error |-> checked.error]
                               ELSE UserMappingsSameTarget(mappings, i + 1,
                                        (tracUser :> githubUser) @@ result,
                                        checked.validated, calls \o checked.calls)

\* the loop of _createTracToGithubUserMap over definition.split(','), from
\* the i-th mapping on
RECURSIVE UserMappings(_, _, _, _, _)
UserMappings(mappings, i, result, validated, calls) ==
    IF i > Len(mappings)
    THEN [result |-> result, validated |-> validated, calls |-> calls,
          error |-> NoError]
    ELSE LET parts == Split(mappings[i], ":")
             words == [k \in 1..Len(parts) |-> Strip(parts[k])]
             failed == [result |-> result, validated |-> validated,
                        calls |-> calls, error |-> ConfigError(OPTION_USERS)]
         IN  IF Len(words) # 2 THEN failed
             ELSE LET tracUser == words[1]
                      githubUser == words[2]
                  IN  IF Len(tracUser) = 0 THEN failed
                      ELSE IF Len(githubUser) = 0 THEN failed
                      ELSE IF Has(result, tracUser) THEN failed
                      ELSE IF githubUser = "*"
                      THEN UserMappings(mappings, i + 1,
                               (tracUser :> githubUser) @@ result, validated, calls)
                      ELSE LET checked == _validateGithubUser(validated, githubUser)
                           IN  IF checked.error # NoError
                               THEN [result |-> (tracUser :> githubUser) @@ result,
                                     validated |-> checked.validated,
                                     calls |-> calls \o checked.calls,
                                     error |-> checked.error]
                               ELSE UserMappings(mappings, i + 1,
                                        (tracUser :> githubUser) @@ result,
                                        checked.validated, calls \o checked.calls)

_createTracToGithubUserMap(validated, definition) ==
    UserMappings(Split(definition, ","), 1, EmptyDict, validated, <<>>)

\* _githubUserFor with the existence check left out
_githubUserForUnvalidated(tracToGithubUserMap, validated, tracUser, validate) ==
    LET unmapped == ~Has(tracToGithubUserMap, tracUser)
                        /\ ~Has(tracToGithubUserMap, "*")
        found == IF Has(tracToGithubUserMap, tracUser)
                 THEN tracToGithubUserMap[tracUser]
                 ELSE tracToGithubUserMap["*"]
        result == IF found = "*" THEN tracUser ELSE found
    IN  IF unmapped
        THEN [result |-> "", validated |-> validated, calls |-> <<>>,
              error |-> ConfigError(OPTION_USERS)]
        ELSE [result |-> result, validated |-> validated, calls |-> <<>>,
              error |-> NoError]

\* _githubUserFor with the wildcard looked up before the Trac user
_githubUserForWildcardFirst(tracToGithubUserMap, validated, tracUser, validate) ==
    LET unmapped == ~Has(tracToGithubUserMap, tracUser)
                        /\ ~Has(tracToGithubUserMap, "*")
        found == IF Has(tracToGithubUserMap, "*")
                 THEN tracToGithubUserMap["*"]
                 ELSE tracToGithubUserMap[tracUser]
        result == IF found = "*" THEN tracUser ELSE found
    IN  IF unmapped
        THEN [result |-> "", validated |-> validated, calls |-> <<>>,
              error |-> ConfigError(OPTION_USERS)]
        ELSE IF validate
        THEN [result |-> result] @@ _validateGithubUser(validated, result)
        ELSE [result |-> result, validated |-> validated, calls |-> <<>>,
              error |-> NoError]

_githubUserFor(tracToGithubUserMap, validated, tracUser, validate) ==
    LET unmapped == ~Has(tracToGithubUserMap, tracUser)
                        /\ ~Has(tracToGithubUserMap, "*")
        found == IF Has(tracToGithubUserMap, tracUser)
                 THEN tracToGithubUserMap[tracUser]
                 ELSE tracToGithubUserMap["*"]
        result == IF found = "*" THEN tracUser ELSE found
    IN  IF unmapped
        THEN [result |-> "", validated |-> validated, calls |-> <<>>,
              error |-> ConfigError(OPTION_USERS)]
        ELSE IF validate
        THEN [result |-> result] @@ _validateGithubUser(validated, result)
        ELSE [result |-> result, validated |-> validated, calls |-> <<>>,
              error |-> NoError]


(***************************************************************************)
(* Mapping labels.  tokenize.generate_tokens of Python 2 on the one line   *)
(* of a definition, for definitions made of letters, digits, blanks,       *)
(* quotes and the operators = : and ,                                      *)
(***************************************************************************)
Letters ==
    {"a", "b", "c", "d", "e", "f", "g", "h", "i", "j", "k", "l", "m", "n", "o",
     "p", "q", "r", "s", "t", "u", "v", "w", "x", "y", "z", "_"}

Quotes == {"\"", "'"}

Token(type, text) == [type |-> type, text |-> text]

\* the last position of the run of characters of `class` that starts at i
RECURSIVE RunEnd(_, _, _)
RunEnd(line, i, class) ==
    IF i < Len(line) /\ CharAt(line, i + 1) \in class
    THEN RunEnd(line, i + 1, class)
    ELSE i

DigitChars == {Digits[d] : d \in 1..10}

\* the tokens of line from position pos on
RECURSIVE LineTokens(_, _)
LineTokens(line, pos) ==
    IF pos > Len(line) THEN <<>>
    ELSE LET initial == CharAt(line, pos)
         IN  IF initial \in Whitespace THEN LineTokens(line, pos + 1)
             ELSE IF initial \in DigitChars
             THEN LET end == RunEnd(line, pos, DigitChars)
                  IN  <<Token("NUMBER", SubSeq(line, pos, end))>>
                          \o LineTokens(line, end + 1)
             ELSE IF initial \in Quotes
             THEN LET end == Find(line, initial, pos + 1)
                  IN  IF end = 0
                      THEN <<Token("ERRORTOKEN", initial)>> \o LineTokens(line, pos + 1)
                      ELSE <<Token("STRING", SubSeq(line, pos, end))>>
                               \o LineTokens(line, end + 1)
             ELSE IF initial \in Letters
             THEN LET end == RunEnd(line, pos, Letters \cup DigitChars)
                  IN  <<Token("NAME", SubSeq(line, pos, end))>>
                          \o LineTokens(line, end + 1)
             ELSE IF initial = "=" /\ pos < Len(line) /\ CharAt(line, pos + 1) = "="
             THEN <<Token("OP", "==")>> \o LineTokens(line, pos + 2)
             ELSE IF initial \in {"=", ":", ","}
             THEN <<Token("OP", initial)>> \o LineTokens(line, pos + 1)
             ELSE <<Token("ERRORTOKEN", initial)>> \o LineTokens(line, pos + 1)

\* tokenize.generate_tokens(StringIO.StringIO(definition).readline)
generate_tokens(definition) ==
    LET indent == SubSeq(definition, 1, Len(definition) - Len(LStrip(definition)))
    IN  IF Len(LStrip(definition)) = 0 THEN <<Token("ENDMARKER", "")>>
        ELSE IF Len(indent) > 0
        THEN <<Token("INDENT", indent)>> \o LineTokens(definition, 1)
                 \o <<Token("DEDENT", ""), Token("ENDMARKER", "")>>
        ELSE LineTokens(definition, 1) \o <<Token("ENDMARKER", "")>>

STATE_AT_TRAC_FIELD == "f"
STATE_AT_COMPARISON_OPERATOR == "="
STATE_AT_TRAC_VALUE == "v"
STATE_AT_COLON == ":"
STATE_AT_LABEL == "l"
STATE_AT_COMMA == ","

\* the loop of _buildTransformations over the tokens, from the i-th on
RECURSIVE BuildTransformations(_, _, _, _, _, _, _)
BuildTransformations(tokens, i, state, tracField, tracValue, labelMap, transformations) ==
    IF i > Len(tokens)
    THEN [transformations |-> transformations, error |-> NoError]
    ELSE LET tokenType == tokens[i].type
             tokenText == IF tokenType = "STRING"
                          THEN SubSeq(tokens[i].text, 2, Len(tokens[i].text) - 1)
                          ELSE tokens[i].text
             failed == [transformations |-> transformations,
                        error |-> ConfigError(OPTION_LABELS)]
         IN  CASE state = STATE_AT_TRAC_FIELD ->
                      BuildTransformations(tokens, i + 1, STATE_AT_COMPARISON_OPERATOR,
                          tokenText, "", labelMap, transformations)
               [] state = STATE_AT_COMPARISON_OPERATOR ->
                      IF tokenText # "=" THEN failed
                      ELSE BuildTransformations(tokens, i + 1, STATE_AT_TRAC_VALUE,
                               tracField, tracValue, labelMap, transformations)
               [] state = STATE_AT_TRAC_VALUE ->
                      BuildTransformations(tokens, i + 1, STATE_AT_COLON,
                          tracField, tokenText, labelMap, transformations)
               [] state = STATE_AT_COLON ->
                      IF tokenText # ":" THEN failed
                      ELSE BuildTransformations(tokens, i + 1, STATE_AT_LABEL,
                               tracField, tracValue, labelMap, transformations)
               [] state = STATE_AT_LABEL ->
                      IF tokenText \notin labelMap THEN failed
                      ELSE BuildTransformations(tokens, i + 1, STATE_AT_COMMA,
                               tracField, tracValue, labelMap,
                               Append(transformations, <<tracField, tracValue, tokenText>>))
               [] state = STATE_AT_COMMA ->
                      IF tokenType # "ENDMARKER" /\ tokenText # "," THEN failed
                      ELSE BuildTransformations(tokens, i + 1, STATE_AT_TRAC_FIELD,
                               tracField, tracValue, labelMap, transformations)

_buildTransformations(labelMap, definition) ==
    BuildTransformations(generate_tokens(definition), 1, STATE_AT_TRAC_FIELD,
        "", "", labelMap, <<>>)

\* _LabelTransformations with a label map that holds every name
_LabelTransformationsUnchecked(definition) ==
    IF Len(definition) = 0
    THEN [transformations |-> <<>>, labelMap |-> {}, calls |-> <<>>,
          error |-> NoError]
    ELSE [labelMap |-> RepoLabels, calls |-> <<Made(Call("get_labels", <<>>))>>]
             @@ _buildTransformations(RepoLabels \cup {"nolabel", "", "=", ":", ","},
                                      definition)

\* _LabelTransformations(repo, definition): the label map holds the names
\* of the repository's labels
_LabelTransformations(definition) ==
    IF Len(definition) = 0
    THEN [transformations |-> <<>>, labelMap |-> {}, calls |-> <<>>,
          error |-> NoError]
    ELSE [labelMap |-> RepoLabels, calls |-> <<Made(Call("get_labels", <<>>))>>]
             @@ _buildTransformations(RepoLabels, definition)

\* labelFor(tracField, tracValue) from transformationIndex on: the labels
\* found, none or one
RECURSIVE LabelFrom(_, _, _, _)
LabelFrom(transformations, transformationIndex, tracField, tracValue) ==
    IF transformationIndex > Len(transformations) THEN <<>>
    ELSE LET transformation == transformations[transformationIndex]
         IN  IF transformation[1] = tracField /\ transformation[2] = tracValue
             THEN <<transformation[3]>>
             ELSE LabelFrom(transformations, transformationIndex + 1,
                      tracField, tracValue)

\* labelFor with the loop going on after a match: the last matching
\* transformation gives the label
labelForLast(transformations, tracField, tracValue) ==
    LET matching == {k \in 1..Len(transformations) :
                        /\ transformations[k][1] = tracField
                        /\ transformations[k][2] = tracValue}
    IN  IF matching = {} THEN <<>>
        ELSE <<transformations[CHOOSE k \in matching : \A j \in matching : j <= k][3]>>

labelFor(transformations, tracField, tracValue) ==
    LabelFrom(transformations, 1, tracField, tracValue)


(***************************************************************************)
(* The repository on Github.  An issue and a milestone get their number    *)
(* from the tracker.                                                       *)
(***************************************************************************)
Max(numbers) == IF numbers = {} THEN 0 ELSE CHOOSE n \in numbers : \A m \in numbers : m <= n

Range(seq) == {seq[k] : k \in 1..Len(seq)}

WithState(items, state) == SelectSeq(items, LAMBDA item : item.state = state)

\* repo.get_issues(state=state)
get_issues(repository, state) == WithState(repository.issues, state)

\* repo.get_milestones(state=state)
get_milestones(repository, state) == WithState(repository.milestones, state)

\* repo.create_milestone(title): the new milestone and the repository with it
create_milestone(repository, title) ==
    LET newMilestone ==
            [number |-> 1 + Max({m.number : m \in Range(repository.milestones)}),
             title |-> title, state |-> "open"]
    IN  [milestone |-> newMilestone,
         repo |-> [repository EXCEPT !.milestones = Append(@, newMilestone)]]

\* repo.create_issue(title, body, assignee, milestone); milestone 0 is none
create_issue(repository, title, body, assignee, milestoneNumber) ==
    LET newIssue ==
            [number |-> 1 + Len(repository.issues), title |-> title, body |-> body,
             assignee |-> assignee, milestone |-> milestoneNumber,
             labels |-> <<>>, comments |-> <<>>, state |-> "open"]
    IN  [issue |-> newIssue,
         repo |-> [repository EXCEPT !.issues = Append(@, newIssue)]]

\* issue.edit(labels=labels) on the issue with this number
edit_labels(repository, number, labels) ==
    [repository EXCEPT !.issues[number].labels = labels]

\* issue.edit(state=state)
edit_state(repository, number, state) ==
    [repository EXCEPT !.issues[number].state = state]

\* issue.create_comment(body)
create_comment(repository, number, body) ==
    [repository EXCEPT !.issues[number].comments = Append(@, body)]

(***************************************************************************)
(* The state: the inputs of migrateTickets, the repository, the variables  *)
(* of migrateTickets, and what a run leaves behind (the calls made to the  *)
(* tracker, the log written, the exception raised).                        *)
(***************************************************************************)
VARIABLES
    \* the inputs, the same for every run
    ticketsCsv, commentsCsv, userMapping, labelMapping,
    firstTicketIdToConvert, lastTicketIdToConvert,
    \* the tracker
    repo,
    \* migrateTickets
    pretend, pc, tracTicketToCommentsMap, existingIssues, existingMilestones,
    tracToGithubUserMap, labelTransformations, _validatedGithubUsers,
    fakeIssueId, rowIndex, ticketMap, githubAssignee, milestone, issue,
    commentIndex,
    \* the run seen from outside
    calls, log, error, repoAtStart, history,
    \* the translator: the text handed to translate, the map of the
    \* translator and what translate gave, once it was called
    sourceText, ticketsToIssuesMap, translated

inputs == <<ticketsCsv, commentsCsv, userMapping, labelMapping,
            firstTicketIdToConvert, lastTicketIdToConvert>>

locals == <<tracTicketToCommentsMap, existingIssues, existingMilestones,
            tracToGithubUserMap, labelTransformations, _validatedGithubUsers,
            fakeIssueId, rowIndex, ticketMap, githubAssignee, milestone, issue,
            commentIndex>>

translator == <<sourceText, ticketsToIssuesMap, translated>>

vars == <<inputs, repo, pretend, pc, locals, calls, log, error, repoAtStart, history,
          translator>>

(***************************************************************************)
(* The translator of translator.py.  Of its substitutions the one for      *)
(* ticket references, the last of compile_subs, is modelled; the texts     *)
(* translated have nothing the patterns of the other substitutions match   *)
(* (no braces, brackets, quotes, "=", "!", "^", "r" before a digit, no     *)
(* "source:", "blog:", "changeset:", "diff:", "attachment:", "::").        *)
(***************************************************************************)
KeyError == [type |-> "KeyError", option |-> "", file |-> "", row |-> 0]

\* the most digits the pattern ticket:([0-9]{1,3}) takes
MAX_DIGITS == 3

\* re.sub of ticket:([0-9]{1,3}) by "issue #{0}" of
\* ticketsToIssuesMap[int(m.group(1))], on text from position pos on
RECURSIVE SubTickets(_, _)
SubTickets(text, pos) ==
    IF pos > Len(text) THEN [text |-> "", error |-> NoError]
    ELSE LET matches == /\ pos + 7 <= Len(text)
                        /\ SubSeq(text, pos, pos + 6) = "ticket:"
                        /\ CharAt(text, pos + 7) \in DigitChars
             run == RunEnd(text, pos + 7, DigitChars)
             end == IF run > pos + 6 + MAX_DIGITS THEN pos + 6 + MAX_DIGITS ELSE run
             ticketId == Long(SubSeq(text, pos + 7, end))
             rest == SubTickets(text, IF matches THEN end + 1 ELSE pos + 1)
         IN  IF matches /\ ~Has(ticketsToIssuesMap, ticketId)
             THEN [text |-> "", error |-> KeyError]
             ELSE IF rest.error # NoError THEN rest
             ELSE [text |-> (IF matches
                             THEN "issue #" \o Decimal(ticketsToIssuesMap[ticketId])
                             ELSE CharAt(text, pos)) \o rest.text,
                   error |-> NoError]

\* Translator.translate(text)
translate(text) == SubTickets(text, 1)

\* a call of translate
Translate ==
    /\ translated = <<>>
    /\ translated' = <<translate(sourceText)>>
    /\ UNCHANGED <<sourceText, ticketsToIssuesMap, inputs, repo, pretend, pc, locals,
                   calls, log, error, repoAtStart, history>>

NoMilestone == [number |-> 0, title |-> ""]

NoIssue == [number |-> 0, title |-> "", body |-> "", state |-> ""]

\* _FakeMilestone(number, title)
_FakeMilestone(number, title) == [number |-> number, title |-> title]

\* _FakeIssue(number, title, body, state)
_FakeIssue(number, title, body, state) ==
    [number |-> number, title |-> title, body |-> body, state |-> state]

NoLabelTransformations == [transformations |-> <<>>, labelMap |-> {}]

\* a call or a line of the log, with the row of the ticket CSV it is made for
\* (the header is row 1; the load phase is row 0)
AtRow(entries, row) == [k \in 1..Len(entries) |-> [row |-> row] @@ entries[k]]

Log(text, args) == [text |-> text, args |-> args]

\* _shortened(text)
THRESHOLD == 30

_shortened(text) ==
    IF Len(text) > THRESHOLD THEN SubSeq(text, 1, THRESHOLD) \o "..." ELSE text


(***************************************************************************)
(* migrateTickets: the load phase.                                         *)
(***************************************************************************)
\* Raise with the exception caught in the loop, which goes on with the next
\* ticket
RaiseAndGoOn(exception) == pc' = "tickets" /\ error' = exception

\* an exception leaves migrateTickets
Raise(exception) == pc' = "failed" /\ error' = exception

\* addIssues(targetMap, state) with the issues the tracker lists
RECURSIVE addIssues(_, _)
addIssues(targetMap, found) ==
    IF Len(found) = 0 THEN targetMap
    ELSE addIssues((Head(found).number :> Head(found)) @@ targetMap, Tail(found))

\* _createIssueMap without the closed issues
_createIssueMapOpen(repository) ==
    addIssues(EmptyDict, get_issues(repository, "open"))

\* _createIssueMap(repo)
_createIssueMap(repository) ==
    addIssues(addIssues(EmptyDict, get_issues(repository, "open")),
              get_issues(repository, "closed"))

\* addMilestones(targetMap, state) with the milestones the tracker lists
RECURSIVE addMilestones(_, _)
addMilestones(targetMap, found) ==
    IF Len(found) = 0 THEN targetMap
    ELSE addMilestones(
             (Head(found).title :> [number |-> Head(found).number,
                                    title |-> Head(found).title]) @@ targetMap,
             Tail(found))

\* _createMilestoneMap without the closed milestones
_createMilestoneMapOpen(repository) ==
    addMilestones(EmptyDict, get_milestones(repository, "open"))

\* _createMilestoneMap without the open milestones
_createMilestoneMapClosed(repository) ==
    addMilestones(EmptyDict, get_milestones(repository, "closed"))

\* _createMilestoneMap(repo)
_createMilestoneMap(repository) ==
    addMilestones(addMilestones(EmptyDict, get_milestones(repository, "open")),
                  get_milestones(repository, "closed"))

\* LoadComments with an unreadable row ending the comments instead of the run
LoadCommentsUpToError ==
    /\ pc = "comments"
    /\ LET loaded == _createTicketToCommentsMap(commentsCsv, 0, EmptyDict)
       IN  /\ tracTicketToCommentsMap' = loaded.result
           /\ pc' = "issues"
           /\ error' = error
    /\ UNCHANGED <<translator, inputs, repo, pretend, existingIssues, existingMilestones,
                   tracToGithubUserMap, labelTransformations, _validatedGithubUsers,
                   fakeIssueId, rowIndex, ticketMap, githubAssignee, milestone,
                   issue, commentIndex, calls, log, repoAtStart, history>>

\* line 467
LoadComments ==
    /\ pc = "comments"
    /\ LET loaded == _createTicketToCommentsMap(commentsCsv, 0, EmptyDict)
       IN  IF loaded.error # NoError
           THEN Raise(loaded.error) /\ UNCHANGED tracTicketToCommentsMap
           ELSE /\ tracTicketToCommentsMap' = loaded.result
                /\ pc' = "issues"
                /\ error' = error
    /\ UNCHANGED <<translator, inputs, repo, pretend, existingIssues, existingMilestones,
                   tracToGithubUserMap, labelTransformations, _validatedGithubUsers,
                   fakeIssueId, rowIndex, ticketMap, githubAssignee, milestone,
                   issue, commentIndex, calls, log, repoAtStart, history>>

\* line 468
LoadIssues ==
    /\ pc = "issues"
    /\ existingIssues' = _createIssueMap(repo)
    /\ calls' = calls \o AtRow(<<Made(Call("get_issues", [state |-> "open"])),
                                 Made(Call("get_issues", [state |-> "closed"]))>>, 0)
    /\ pc' = "milestones"
    /\ UNCHANGED <<translator, inputs, repo, pretend, tracTicketToCommentsMap, existingMilestones,
                   tracToGithubUserMap, labelTransformations, _validatedGithubUsers,
                   fakeIssueId, rowIndex, ticketMap, githubAssignee, milestone,
                   issue, commentIndex, log, error, repoAtStart, history>>

\* line 469
LoadMilestones ==
    /\ pc = "milestones"
    /\ existingMilestones' = _createMilestoneMap(repo)
    /\ calls' = calls \o AtRow(<<Made(Call("get_milestones", [state |-> "open"])),
                                 Made(Call("get_milestones", [state |-> "closed"]))>>, 0)
    /\ pc' = "users"
    /\ UNCHANGED <<translator, inputs, repo, pretend, tracTicketToCommentsMap, existingIssues,
                   tracToGithubUserMap, labelTransformations, _validatedGithubUsers,
                   fakeIssueId, rowIndex, ticketMap, githubAssignee, milestone,
                   issue, commentIndex, log, error, repoAtStart, history>>

\* line 470
LoadUserMapping ==
    /\ pc = "users"
    /\ LET loaded == _createTracToGithubUserMap(_validatedGithubUsers, userMapping)
       IN  /\ _validatedGithubUsers' = loaded.validated
           /\ calls' = calls \o AtRow(loaded.calls, 0)
           /\ IF loaded.error # NoError
              THEN Raise(loaded.error) /\ UNCHANGED tracToGithubUserMap
              ELSE /\ tracToGithubUserMap' = loaded.result
                   /\ pc' = "labels"
                   /\ error' = error
    /\ UNCHANGED <<translator, inputs, repo, pretend, tracTicketToCommentsMap, existingIssues,
                   existingMilestones, labelTransformations, fakeIssueId, rowIndex,
                   ticketMap, githubAssignee, milestone, issue, commentIndex, log,
                   repoAtStart, history>>

\* lines 471 to 480
LoadLabelMapping ==
    /\ pc = "labels"
    /\ LET loaded == _LabelTransformations(labelMapping)
       IN  /\ calls' = calls \o AtRow(loaded.calls, 0)
           /\ IF loaded.error # NoError
              THEN Raise(loaded.error) /\ UNCHANGED <<labelTransformations, fakeIssueId>>
              ELSE /\ labelTransformations' =
                          [transformations |-> loaded.transformations,
                           labelMap |-> loaded.labelMap]
                   /\ pc' = "tickets"
                   /\ error' = error
                   /\ fakeIssueId' = 1 + Cardinality(DOMAIN existingIssues)
    /\ UNCHANGED <<translator, inputs, repo, pretend, tracTicketToCommentsMap, existingIssues,
                   existingMilestones, tracToGithubUserMap, _validatedGithubUsers,
                   rowIndex, ticketMap, githubAssignee, milestone, issue,
                   commentIndex, log, repoAtStart, history>>


(***************************************************************************)
(* migrateTickets: the loop over the ticket CSV.                           *)
(***************************************************************************)
\* a call that changes the tracker may raise an exception instead
MayRaise(calling) == IF calling THEN BOOLEAN ELSE {FALSE}

\* IsToConvert with the first id left out of the range
IsToConvertAfterFirst(ticketId) ==
    /\ ticketId > firstTicketIdToConvert
    /\ (ticketId <= lastTicketIdToConvert) \/ (lastTicketIdToConvert = 0)

\* lines 484 and 485
IsToConvert(ticketId) ==
    /\ ticketId >= firstTicketIdToConvert
    /\ (ticketId <= lastTicketIdToConvert) \/ (lastTicketIdToConvert = 0)

\* CommentsToAdd with the latest comment of the ticket first
CommentsToAddLatestFirst(ticketId) ==
    IF Has(tracTicketToCommentsMap, ticketId)
    THEN [k \in 1..Len(tracTicketToCommentsMap[ticketId]) |->
             tracTicketToCommentsMap[ticketId][Len(tracTicketToCommentsMap[ticketId]) + 1 - k]]
    ELSE <<>>

\* tracTicketToCommentsMap.get(ticketId), None being no comments
CommentsToAdd(ticketId) ==
    IF Has(tracTicketToCommentsMap, ticketId)
    THEN tracTicketToCommentsMap[ticketId]
    ELSE <<>>

\* NextTicket with a skipped ticket taking a number of the dry run
NextTicketCounted ==
    /\ pc = "tickets"
    /\ LET read == _tracTicketMaps(ticketsCsv, rowIndex)
           ticketId == read.ticketMap.id
           title == read.ticketMap.summary
       IN  /\ rowIndex' = read.next
           /\ ticketMap' = read.ticketMap
           /\ CASE read.kind = "stop" ->
                       pc' = "done" /\ UNCHANGED <<error, log, fakeIssueId>>
                [] read.kind = "raise" ->
                       Raise(read.error) /\ UNCHANGED <<log, fakeIssueId>>
                [] read.kind = "yield" ->
                       /\ error' = error
                       /\ IF IsToConvert(ticketId)
                          THEN pc' = "assignee" /\ UNCHANGED <<log, fakeIssueId>>
                          ELSE /\ pc' = "tickets"
                               /\ fakeIssueId' = fakeIssueId + 1
                               /\ log' = log \o AtRow(<<Log("skip ticket",
                                             <<ticketId, title>>)>>, read.next)
    /\ UNCHANGED <<translator, inputs, repo, pretend, tracTicketToCommentsMap, existingIssues,
                   existingMilestones, tracToGithubUserMap, labelTransformations,
                   _validatedGithubUsers, githubAssignee, milestone,
                   issue, commentIndex, calls, repoAtStart, history>>

\* lines 481 to 485 and 533 to 534: the next row of the ticket CSV
NextTicket ==
    /\ pc = "tickets"
    /\ LET read == _tracTicketMaps(ticketsCsv, rowIndex)
           ticketId == read.ticketMap.id
           title == read.ticketMap.summary
       IN  /\ rowIndex' = read.next
           /\ ticketMap' = read.ticketMap
           /\ CASE read.kind = "stop" ->
                       pc' = "done" /\ UNCHANGED <<error, log>>
                [] read.kind = "raise" ->
                       Raise(read.error) /\ UNCHANGED log
                [] read.kind = "yield" ->
                       /\ error' = error
                       /\ IF IsToConvert(ticketId)
                          THEN pc' = "assignee" /\ log' = log
                          ELSE /\ pc' = "tickets"
                               /\ log' = log \o AtRow(<<Log("skip ticket",
                                             <<ticketId, title>>)>>, read.next)
    /\ UNCHANGED <<translator, inputs, repo, pretend, tracTicketToCommentsMap, existingIssues,
                   existingMilestones, tracToGithubUserMap, labelTransformations,
                   _validatedGithubUsers, fakeIssueId, githubAssignee, milestone,
                   issue, commentIndex, calls, repoAtStart, history>>

\* ResolveAssignee with the Github user checked in a real run only
ResolveAssigneeUnchecked ==
    /\ pc = "assignee"
    /\ LET tracOwner == Strip(ticketMap.owner)
           resolved == _githubUserFor(tracToGithubUserMap, _validatedGithubUsers,
                                      tracOwner, ~pretend)
       IN  /\ _validatedGithubUsers' = resolved.validated
           /\ calls' = calls \o AtRow(resolved.calls, rowIndex)
           /\ IF resolved.error # NoError
              THEN Raise(resolved.error) /\ UNCHANGED githubAssignee
              ELSE /\ githubAssignee' = resolved.result
                   /\ pc' = "milestone"
                   /\ error' = error
    /\ UNCHANGED <<translator, inputs, repo, pretend, tracTicketToCommentsMap, existingIssues,
                   existingMilestones, tracToGithubUserMap, labelTransformations,
                   fakeIssueId, rowIndex, ticketMap, milestone, issue, commentIndex,
                   log, repoAtStart, history>>

\* lines 486 to 488
ResolveAssignee ==
    /\ pc = "assignee"
    /\ LET tracOwner == Strip(ticketMap.owner)
           resolved == _githubUserFor(tracToGithubUserMap, _validatedGithubUsers,
                                      tracOwner, TRUE)
       IN  /\ _validatedGithubUsers' = resolved.validated
           /\ calls' = calls \o AtRow(resolved.calls, rowIndex)
           /\ IF resolved.error # NoError
              THEN Raise(resolved.error) /\ UNCHANGED githubAssignee
              ELSE /\ githubAssignee' = resolved.result
                   /\ pc' = "milestone"
                   /\ error' = error
    /\ UNCHANGED <<translator, inputs, repo, pretend, tracTicketToCommentsMap, existingIssues,
                   existingMilestones, tracToGithubUserMap, labelTransformations,
                   fakeIssueId, rowIndex, ticketMap, milestone, issue, commentIndex,
                   log, repoAtStart, history>>

\* lines 489 to 503
ResolveMilestone ==
    /\ pc = "milestone"
    /\ LET milestoneTitle == Strip(ticketMap.milestone)
           isNew == Len(milestoneTitle) # 0 /\ ~Has(existingMilestones, milestoneTitle)
           created == create_milestone(repo, milestoneTitle)
           newMilestone ==
               IF ~pretend
               THEN _FakeMilestone(created.milestone.number, created.milestone.title)
               ELSE _FakeMilestone(Cardinality(DOMAIN existingMilestones) + 1,
                                   milestoneTitle)
           call == Call("create_milestone", [title |-> milestoneTitle])
       IN  \E raised \in MayRaise(isNew /\ ~pretend) :
             /\ log' = IF isNew
                       THEN log \o AtRow(<<Log("add milestone", <<milestoneTitle>>)>>,
                                         rowIndex)
                       ELSE log
             /\ IF raised
                THEN /\ calls' = calls \o AtRow(<<Raised(call)>>, rowIndex)
                     /\ Raise(GithubException)
                     /\ UNCHANGED <<repo, existingMilestones, milestone>>
                ELSE /\ calls' = IF isNew /\ ~pretend
                                 THEN calls \o AtRow(<<Made(call)>>, rowIndex)
                                 ELSE calls
                     /\ repo' = IF isNew /\ ~pretend THEN created.repo ELSE repo
                     /\ existingMilestones' =
                            IF isNew
                            THEN (milestoneTitle :> newMilestone) @@ existingMilestones
                            ELSE existingMilestones
                     /\ milestone' =
                            IF Len(milestoneTitle) = 0 THEN NoMilestone
                            ELSE IF isNew THEN newMilestone
                            ELSE existingMilestones[milestoneTitle]
                     /\ pc' = "issue"
                     /\ error' = error
    /\ UNCHANGED <<translator, inputs, pretend, tracTicketToCommentsMap, existingIssues,
                   tracToGithubUserMap, labelTransformations, _validatedGithubUsers,
                   fakeIssueId, rowIndex, ticketMap, githubAssignee, issue,
                   commentIndex, repoAtStart, history>>

\* CreateIssue with the description run through the translator
CreateIssueTranslated ==
    /\ pc = "issue"
    /\ LET title == ticketMap.summary
           body == translate(ticketMap.description).text
           created == create_issue(repo, title, body, githubAssignee, milestone.number)
           call == Call("create_issue",
                        [title |-> title, body |-> body, assignee |-> githubAssignee,
                         milestone |-> milestone.number])
           newIssue ==
               IF ~pretend
               THEN _FakeIssue(created.issue.number, created.issue.title,
                               created.issue.body, created.issue.state)
               ELSE _FakeIssue(fakeIssueId, title, body, "open")
           converting == Log("convert ticket", <<ticketMap.id, _shortened(title)>>)
       IN  \E raised \in MayRaise(~pretend) :
             IF raised
             THEN /\ calls' = calls \o AtRow(<<Raised(call)>>, rowIndex)
                  /\ log' = log \o AtRow(<<converting>>, rowIndex)
                  /\ Raise(GithubException)
                  /\ UNCHANGED <<repo, issue, fakeIssueId>>
             ELSE /\ calls' = IF ~pretend
                              THEN calls \o AtRow(<<Made(call)>>, rowIndex)
                              ELSE calls
                  /\ repo' = IF ~pretend THEN created.repo ELSE repo
                  /\ issue' = newIssue
                  /\ fakeIssueId' = IF ~pretend THEN fakeIssueId ELSE fakeIssueId + 1
                  /\ log' = log \o AtRow(<<converting,
                                Log("issue",
                                    <<newIssue.number, Strip(ticketMap.owner),
                                      githubAssignee, Strip(ticketMap.milestone),
                                      milestone.number>>)>>, rowIndex)
                  /\ pc' = "label"
                  /\ error' = error
    /\ UNCHANGED <<translator, inputs, pretend, tracTicketToCommentsMap, existingIssues,
                   existingMilestones, tracToGithubUserMap, labelTransformations,
                   _validatedGithubUsers, rowIndex, ticketMap, githubAssignee,
                   milestone, commentIndex, repoAtStart, history>>

\* lines 504 to 514
CreateIssue ==
    /\ pc = "issue"
    /\ LET title == ticketMap.summary
           body == ticketMap.description
           created == create_issue(repo, title, body, githubAssignee, milestone.number)
           call == Call("create_issue",
                        [title |-> title, body |-> body, assignee |-> githubAssignee,
                         milestone |-> milestone.number])
           newIssue ==
               IF ~pretend
               THEN _FakeIssue(created.issue.number, created.issue.title,
                               created.issue.body, created.issue.state)
               ELSE _FakeIssue(fakeIssueId, title, body, "open")
           converting == Log("convert ticket", <<ticketMap.id, _shortened(title)>>)
       IN  \E raised \in MayRaise(~pretend) :
             IF raised
             THEN /\ calls' = calls \o AtRow(<<Raised(call)>>, rowIndex)
                  /\ log' = log \o AtRow(<<converting>>, rowIndex)
                  /\ Raise(GithubException)
                  /\ UNCHANGED <<repo, issue, fakeIssueId>>
             ELSE /\ calls' = IF ~pretend
                              THEN calls \o AtRow(<<Made(call)>>, rowIndex)
                              ELSE calls
                  /\ repo' = IF ~pretend THEN created.repo ELSE repo
                  /\ issue' = newIssue
                  /\ fakeIssueId' = IF ~pretend THEN fakeIssueId ELSE fakeIssueId + 1
                  /\ log' = log \o AtRow(<<converting,
                                Log("issue",
                                    <<newIssue.number, Strip(ticketMap.owner),
                                      githubAssignee, Strip(ticketMap.milestone),
                                      milestone.number>>)>>, rowIndex)
                  /\ pc' = "label"
                  /\ error' = error
    /\ UNCHANGED <<translator, inputs, pretend, tracTicketToCommentsMap, existingIssues,
                   existingMilestones, tracToGithubUserMap, labelTransformations,
                   _validatedGithubUsers, rowIndex, ticketMap, githubAssignee,
                   milestone, commentIndex, repoAtStart, history>>


\* possiblyAddLabel with the label put in front of the labels
possiblyAddLabelInFront(labels, tracField, tracValue) ==
    LET label == labelFor(labelTransformations.transformations, tracField, tracValue)
    IN  IF Len(label) # 0
        THEN [labels |-> IF ~pretend THEN label \o labels ELSE labels,
              log |-> <<Log("add label", label)>>]
        ELSE [labels |-> labels, log |-> <<>>]

\* possiblyAddLabel with the test of pretend left out
possiblyAddLabelAlways(labels, tracField, tracValue) ==
    LET label == labelFor(labelTransformations.transformations, tracField, tracValue)
    IN  IF Len(label) # 0
        THEN [labels |-> labels \o label, log |-> <<Log("add label", label)>>]
        ELSE [labels |-> labels, log |-> <<>>]

\* possiblyAddLabel(labels, tracField, tracValue): the labels afterwards and
\* the lines logged
possiblyAddLabel(labels, tracField, tracValue) ==
    LET label == labelFor(labelTransformations.transformations, tracField, tracValue)
    IN  IF Len(label) # 0
        THEN [labels |-> IF ~pretend THEN labels \o label ELSE labels,
              log |-> <<Log("add label", label)>>]
        ELSE [labels |-> labels, log |-> <<>>]

\* lines 515 to 519
AddLabels ==
    /\ pc = "label"
    /\ LET forType == possiblyAddLabel(<<>>, "type", ticketMap.type)
           forResolution ==
               possiblyAddLabel(forType.labels, "resolution", ticketMap.resolution)
           labels == forResolution.labels
           call == Call("edit", [issue |-> issue.number, labels |-> labels])
       IN  \E raised \in MayRaise(Len(labels) > 0) :
             /\ log' = log \o AtRow(forType.log \o forResolution.log, rowIndex)
             /\ IF raised
                THEN /\ calls' = calls \o AtRow(<<Raised(call)>>, rowIndex)
                     /\ Raise(GithubException)
                     /\ UNCHANGED <<repo, commentIndex>>
                ELSE /\ calls' = IF Len(labels) > 0
                                 THEN calls \o AtRow(<<Made(call)>>, rowIndex)
                                 ELSE calls
                     /\ repo' = IF Len(labels) > 0
                                THEN edit_labels(repo, issue.number, labels)
                                ELSE repo
                     /\ commentIndex' = 1
                     /\ pc' = IF Len(CommentsToAdd(ticketMap.id)) > 0
                              THEN "comment" ELSE "close"
                     /\ error' = error
    /\ UNCHANGED <<translator, inputs, pretend, tracTicketToCommentsMap, existingIssues,
                   existingMilestones, tracToGithubUserMap, labelTransformations,
                   _validatedGithubUsers, fakeIssueId, rowIndex, ticketMap,
                   githubAssignee, milestone, issue, repoAtStart, history>>

\* AddComment with the author of the comment checked as the owner of a ticket is
AddCommentChecked ==
    /\ pc = "comment"
    /\ LET commentsToAdd == CommentsToAdd(ticketMap.id)
           comment == commentsToAdd[commentIndex]
           commentBody == comment.body
           resolved == _githubUserFor(tracToGithubUserMap, _validatedGithubUsers,
                                      comment.author, TRUE)
           commentAuthor == resolved.result
           call == Call("create_comment", [issue |-> issue.number, body |-> commentBody])
       IN  \E raised \in MayRaise(resolved.error = NoError /\ ~pretend) :
             IF resolved.error # NoError
             THEN /\ Raise(resolved.error)
                  /\ UNCHANGED <<repo, calls, log, commentIndex>>
             ELSE /\ log' = log \o AtRow(<<Log("add comment by",
                                <<commentAuthor, _shortened(commentBody)>>)>>, rowIndex)
                  /\ IF raised
                     THEN /\ calls' = calls \o AtRow(<<Raised(call)>>, rowIndex)
                          /\ Raise(GithubException)
                          /\ UNCHANGED <<repo, commentIndex>>
                     ELSE /\ calls' = IF ~pretend
                                      THEN calls \o AtRow(<<Made(call)>>, rowIndex)
                                      ELSE calls
                          /\ repo' = IF ~pretend
                                     THEN create_comment(repo, issue.number, commentBody)
                                     ELSE repo
                          /\ commentIndex' = commentIndex + 1
                          /\ pc' = IF commentIndex < Len(commentsToAdd)
                                   THEN "comment" ELSE "close"
                          /\ error' = error
    /\ UNCHANGED <<translator, inputs, pretend, tracTicketToCommentsMap, existingIssues,
                   existingMilestones, tracToGithubUserMap, labelTransformations,
                   _validatedGithubUsers, fakeIssueId, rowIndex, ticketMap,
                   githubAssignee, milestone, issue, repoAtStart, history>>

\* lines 522 to 528: the next comment of the ticket
AddComment ==
    /\ pc = "comment"
    /\ LET commentsToAdd == CommentsToAdd(ticketMap.id)
           comment == commentsToAdd[commentIndex]
           commentBody == comment.body
           resolved == _githubUserFor(tracToGithubUserMap, _validatedGithubUsers,
                                      comment.author, FALSE)
           commentAuthor == resolved.result
           call == Call("create_comment", [issue |-> issue.number, body |-> commentBody])
       IN  \E raised \in MayRaise(resolved.error = NoError /\ ~pretend) :
             IF resolved.error # NoError
             THEN /\ Raise(resolved.error)
                  /\ UNCHANGED <<repo, calls, log, commentIndex>>
             ELSE /\ log' = log \o AtRow(<<Log("add comment by",
                                <<commentAuthor, _shortened(commentBody)>>)>>, rowIndex)
                  /\ IF raised
                     THEN /\ calls' = calls \o AtRow(<<Raised(call)>>, rowIndex)
                          /\ Raise(GithubException)
                          /\ UNCHANGED <<repo, commentIndex>>
                     ELSE /\ calls' = IF ~pretend
                                      THEN calls \o AtRow(<<Made(call)>>, rowIndex)
                                      ELSE calls
                          /\ repo' = IF ~pretend
                                     THEN create_comment(repo, issue.number, commentBody)
                                     ELSE repo
                          /\ commentIndex' = commentIndex + 1
                          /\ pc' = IF commentIndex < Len(commentsToAdd)
                                   THEN "comment" ELSE "close"
                          /\ error' = error
    /\ UNCHANGED <<translator, inputs, pretend, tracTicketToCommentsMap, existingIssues,
                   existingMilestones, tracToGithubUserMap, labelTransformations,
                   _validatedGithubUsers, fakeIssueId, rowIndex, ticketMap,
                   githubAssignee, milestone, issue, repoAtStart, history>>

\* CloseIssue with the status stripped of blanks as the owner and the milestone are
CloseIssueStripped ==
    /\ pc = "close"
    /\ LET closing == Strip(ticketMap.status) = "closed"
           call == Call("edit", [issue |-> issue.number, state |-> "closed"])
       IN  \E raised \in MayRaise(closing /\ ~pretend) :
             /\ log' = IF closing
                       THEN log \o AtRow(<<Log("close issue", <<>>)>>, rowIndex)
                       ELSE log
             /\ IF raised
                THEN /\ calls' = calls \o AtRow(<<Raised(call)>>, rowIndex)
                     /\ Raise(GithubException)
                     /\ UNCHANGED repo
                ELSE /\ calls' = IF closing /\ ~pretend
                                 THEN calls \o AtRow(<<Made(call)>>, rowIndex)
                                 ELSE calls
                     /\ repo' = IF closing /\ ~pretend
                                THEN edit_state(repo, issue.number, "closed")
                                ELSE repo
                     /\ pc' = "tickets"
                     /\ error' = error
    /\ UNCHANGED <<translator, inputs, pretend, tracTicketToCommentsMap, existingIssues,
                   existingMilestones, tracToGithubUserMap, labelTransformations,
                   _validatedGithubUsers, fakeIssueId, rowIndex, ticketMap,
                   githubAssignee, milestone, issue, commentIndex, repoAtStart,
                   history>>

\* lines 529 to 532
CloseIssue ==
    /\ pc = "close"
    /\ LET closing == ticketMap.status = "closed"
           call == Call("edit", [issue |-> issue.number, state |-> "closed"])
       IN  \E raised \in MayRaise(closing /\ ~pretend) :
             /\ log' = IF closing
                       THEN log \o AtRow(<<Log("close issue", <<>>)>>, rowIndex)
                       ELSE log
             /\ IF raised
                THEN /\ calls' = calls \o AtRow(<<Raised(call)>>, rowIndex)
                     /\ Raise(GithubException)
                     /\ UNCHANGED repo
                ELSE /\ calls' = IF closing /\ ~pretend
                                 THEN calls \o AtRow(<<Made(call)>>, rowIndex)
                                 ELSE calls
                     /\ repo' = IF closing /\ ~pretend
                                THEN edit_state(repo, issue.number, "closed")
                                ELSE repo
                     /\ pc' = "tickets"
                     /\ error' = error
    /\ UNCHANGED <<translator, inputs, pretend, tracTicketToCommentsMap, existingIssues,
                   existingMilestones, tracToGithubUserMap, labelTransformations,
                   _validatedGithubUsers, fakeIssueId, rowIndex, ticketMap,
                   githubAssignee, milestone, issue, commentIndex, repoAtStart,
                   history>>

(***************************************************************************)
(* A second run: after the first run, tratihubis may be run once more with *)
(* --really and the same config.  Each run is a process of its own: it     *)
(* starts with an empty set of validated users and finds the repository as *)
(* the run before left it.  A run the tracker broke off is not followed by *)
(* another one.                                                            *)
(***************************************************************************)
Finished == pc \in {"done", "failed"}

ThisRun ==
    [pretend |-> pretend, calls |-> calls, log |-> log, error |-> error,
     repoAtStart |-> repoAtStart, repoAtEnd |-> repo]

StartOfRun ==
    /\ pc = "comments"
    /\ tracTicketToCommentsMap = EmptyDict
    /\ existingIssues = EmptyDict
    /\ existingMilestones = EmptyDict
    /\ tracToGithubUserMap = EmptyDict
    /\ labelTransformations = NoLabelTransformations
    /\ _validatedGithubUsers = {}
    /\ fakeIssueId = 0
    /\ rowIndex = 0
    /\ ticketMap = NoTicket
    /\ githubAssignee = ""
    /\ milestone = NoMilestone
    /\ issue = NoIssue
    /\ commentIndex = 0
    /\ calls = <<>>
    /\ log = <<>>
    /\ error = NoError

NextRun ==
    /\ Finished
    /\ history = <<>>
    /\ error # GithubException
    /\ history' = Append(history, ThisRun)
    /\ pretend' = FALSE
    /\ repoAtStart' = repo
    /\ pc' = "comments"
    /\ tracTicketToCommentsMap' = EmptyDict
    /\ existingIssues' = EmptyDict
    /\ existingMilestones' = EmptyDict
    /\ tracToGithubUserMap' = EmptyDict
    /\ labelTransformations' = NoLabelTransformations
    /\ _validatedGithubUsers' = {}
    /\ fakeIssueId' = 0
    /\ rowIndex' = 0
    /\ ticketMap' = NoTicket
    /\ githubAssignee' = ""
    /\ milestone' = NoMilestone
    /\ issue' = NoIssue
    /\ commentIndex' = 0
    /\ calls' = <<>>
    /\ log' = <<>>
    /\ error' = NoError
    /\ UNCHANGED <<translator, inputs, repo>>


(***************************************************************************)
(* The inputs.  Each group varies some of them and keeps the others at a   *)
(* default: a ticket of type defect owned by hugo, in milestone M1, closed *)
(* as wontfix; every user mapped to itself; labels for the type and the    *)
(* resolution; all ticket ids converted; an empty repository.              *)
(***************************************************************************)
SeqsUpTo(S, n) == UNION {[1..k -> S] : k \in 0..n}

TicketHeader ==
    <<"id", "type", "owner", "reporter", "milestone", "status", "resolution",
      "summary", "description">>

CommentHeader == <<"id", "time", "author", "body">>

DefaultTicket ==
    [id |-> 1, type |-> "defect", owner |-> "hugo", reporter |-> "sepp",
     milestone |-> "M1", status |-> "closed", resolution |-> "wontfix",
     summary |-> "summary", description |-> "see ticket:1"]

\* the row of the ticket CSV for a ticket
TicketRow(t) ==
    <<Decimal(t.id), t.type, t.owner, t.reporter, t.milestone, t.status,
      t.resolution, t.summary, t.description>>

\* the row of the comment CSV for a comment
CommentRow(ticketId, author, body) == <<Decimal(ticketId), "0", author, body>>

TicketFiles(tickets) ==
    {<<TicketHeader>> \o [k \in DOMAIN rows |-> TicketRow(rows[k])] :
        rows \in SeqsUpTo(tickets, MaxTickets)}

CommentFiles(comments) ==
    {<<CommentHeader>> \o rows : rows \in SeqsUpTo(comments, MaxComments)}

DefaultComments ==
    <<CommentHeader, CommentRow(1, "hugo", "first"), CommentRow(2, "sepp", "other"),
      CommentRow(1, "sepp", "as in ticket:1")>>

DefaultUserMapping == "*:*"

DefaultLabelMapping == "type=defect: bug, resolution=wontfix: wontfix"

EmptyRepo == [issues |-> <<>>, milestones |-> <<>>]

OldIssue(number, state) ==
    [number |-> number, title |-> "old", body |-> "", assignee |-> "",
     milestone |-> 0, labels |-> <<>>, comments |-> <<>>, state |-> state]

\* the issues of a repository: numbered from 1, open or closed
IssueLists ==
    UNION {{[k \in 1..n |-> OldIssue(k, states[k])] :
               states \in [1..n -> {"open", "closed"}]} :
           n \in 0..MaxExistingIssues}

OldMilestone(number, title, state) ==
    [number |-> number, title |-> title, state |-> state]

\* the milestones of a repository: the numbers are those the tracker gave,
\* with gaps where a milestone has been deleted
MilestoneLists ==
    {<<>>,
     <<OldMilestone(1, "M1", "open")>>,
     <<OldMilestone(1, "M1", "closed")>>,
     <<OldMilestone(2, "M1", "open")>>,
     <<OldMilestone(1, "M2", "closed"), OldMilestone(3, "M1", "open")>>}

Inputs(files, comments, users, labels, first, last, repository) ==
    /\ ticketsCsv = files
    /\ commentsCsv = comments
    /\ userMapping = users
    /\ labelMapping = labels
    /\ firstTicketIdToConvert = first
    /\ lastTicketIdToConvert = last
    /\ repo = repository
    /\ sourceText = ""
    /\ ticketsToIssuesMap = EmptyDict
    /\ translated = <<>>

\* the ids of the tickets, the range of ids to convert, the old issues
InitRange ==
    \E files \in TicketFiles({[DefaultTicket EXCEPT
                                     !.id = i, !.summary = "ticket " \o Decimal(i)] :
                                 i \in 1..MaxTicketId}),
       first \in 1..MaxTicketId, last \in 0..MaxTicketId, issues \in IssueLists :
        Inputs(files, DefaultComments, DefaultUserMapping, DefaultLabelMapping,
               first, last, [EmptyRepo EXCEPT !.issues = issues])

\* the milestones of the tickets and of the repository
InitMilestones ==
    \E files \in TicketFiles({[DefaultTicket EXCEPT
                                     !.milestone = m,
                                     !.id = IF m \in {"", "M2"} THEN 2 ELSE 1] :
                                 m \in {"", "M1", " M1 ", "M2"}}),
       milestones \in MilestoneLists :
        Inputs(files, DefaultComments, DefaultUserMapping, DefaultLabelMapping,
               1, 0, [EmptyRepo EXCEPT !.milestones = milestones])

\* the owners of the tickets and the user mapping
InitUsers ==
    \E files \in TicketFiles({[DefaultTicket EXCEPT !.owner = o] :
                                 o \in {"hugo", " sepp ", "anna"}}),
       users \in {"*:*", "hugo: sepp, *: roskakori", "hugo: sepp", "hugo: anna",
                  "anna: *, *: sepp"} :
        Inputs(files, DefaultComments, users, DefaultLabelMapping,
               1, 0, EmptyRepo)

\* the type, the resolution and the status of the tickets, the label mapping
InitLabels ==
    \E files \in TicketFiles({[DefaultTicket EXCEPT
                                     !.type = t, !.resolution = r,
                                     !.status = IF r = "fixed" THEN "closed"
                                                ELSE IF t = "task" THEN " closed"
                                                ELSE "new"] :
                                 t \in {"defect", "task"},
                                 r \in {"wontfix", "fixed"}}),
       labels \in {"", DefaultLabelMapping, "type=task: enhancement, type=task: bug",
                   "type=defect: critical"} :
        Inputs(files, DefaultComments, DefaultUserMapping, labels,
               1, 0, EmptyRepo)

\* the comments
InitComments ==
    \E comments \in CommentFiles({CommentRow(i, c[1], c[2]) :
                                     i \in 1..MaxTicketId,
                                     c \in {<<"hugo", "first">>, <<"anna", "second">>}}),
       users \in {"*:*", "hugo: sepp"} :
        Inputs(<<TicketHeader, TicketRow([DefaultTicket EXCEPT !.id = 2]),
                 TicketRow(DefaultTicket)>>,
               comments, users, DefaultLabelMapping, 2, 0, EmptyRepo)

\* rows of the wrong length and ids that are no numbers
InitCsv ==
    \E rows \in SeqsUpTo({TicketRow(DefaultTicket), <<"2", "defect", "hugo">>,
                          TicketRow(DefaultTicket) \o <<"more">>,
                          <<"x">> \o Tail(TicketRow(DefaultTicket))}, MaxTickets),
       comments \in {DefaultComments, <<>>, <<CommentHeader, <<"1", "0", "hugo">>>>,
                     <<CommentHeader, CommentRow(1, "hugo", "first"),
                       CommentRow(1, "sepp", "second") \o <<"more">>>>,
                     <<CommentHeader, CommentRow(1, "hugo", "first"),
                       <<"", "0", "hugo", "second">>>>} :
        Inputs(<<TicketHeader>> \o rows, comments, DefaultUserMapping,
               DefaultLabelMapping, 1, 0, EmptyRepo)

\* the start of the first run
FirstRun ==
    /\ pretend \in BOOLEAN
    /\ repoAtStart = repo
    /\ history = <<>>
    /\ StartOfRun

Init ==
    /\ \/ InitRange
       \/ InitMilestones
       \/ InitUsers
       \/ InitLabels
       \/ InitComments
       \/ InitCsv
    /\ FirstRun

\* one run of migrateTickets
Next ==
    \/ LoadComments
    \/ LoadIssues
    \/ LoadMilestones
    \/ LoadUserMapping
    \/ LoadLabelMapping
    \/ NextTicket
    \/ ResolveAssignee
    \/ ResolveMilestone
    \/ CreateIssue
    \/ AddLabels
    \/ AddComment
    \/ CloseIssue

Spec == Init /\ [][Next]_vars

\* runs one after the other
SpecRuns == Init /\ [][Next \/ NextRun]_vars

\* the runs over CSV files with rows that cannot be read
InitCsvFiles == InitCsv /\ FirstRun

SpecCsv == InitCsvFiles /\ [][Next]_vars

\* the runs that differ in the labels, the status and the comments of the
\* tickets
InitTickets ==
    /\ InitLabels \/ InitComments
    /\ FirstRun

SpecTickets == InitTickets /\ [][Next]_vars

(***************************************************************************)
(* Properties of a run.                                                    *)
(***************************************************************************)
\* the lines of the log with this text
Logged(lines, text) == SelectSeq(lines, LAMBDA line : line.text = text)

\* the calls with this name
Called(made, name) == SelectSeq(made, LAMBDA call : call.name = name)

\* C1: in a dry run (pretend) every call made to the tracker is a read call
\* (get_issues, get_milestones, get_labels, get_user), none is
\* create_milestone, create_issue, an edit or create_comment, and the
\* repository is as it was at the start of the run
DryRunOnlyReads ==
    pretend =>
        /\ \A k \in 1..Len(calls) :
               calls[k].name \in ReadCalls /\ calls[k].name \notin MutatingCalls
        /\ repo = repoAtStart

\* a dry run has gone through a closed ticket with a new milestone, a label
\* and a comment
DryRunOnlyReadsWitness ==
    /\ pretend
    /\ pc = "done"
    /\ Len(Logged(log, "add milestone")) > 0
    /\ Len(Logged(log, "add label")) > 0
    /\ Len(Logged(log, "add comment by")) > 0
    /\ Len(Logged(log, "close issue")) > 0
    /\ Len(calls) > 0

\* the titles in these calls of create_milestone or lines "add milestone"
Titles(entries) == [k \in 1..Len(entries) |-> entries[k].args[1]]

CreatedTitles(made) ==
    [k \in 1..Len(Called(made, "create_milestone")) |->
        Called(made, "create_milestone")[k].args.title]

Distinct(seq) == \A j, k \in 1..Len(seq) : j # k => seq[j] # seq[k]

\* C2: within one run create_milestone is called at most once for a title
\* and never for the title of a milestone, open or closed, the repository
\* had at the start; "add milestone" is logged once for each call, and in a
\* dry run under the same conditions; a ticket whose milestone is resolved
\* has the entry of the map under its stripped title
MilestoneCreatedOnce ==
    /\ Distinct(CreatedTitles(calls))
    /\ \A k \in 1..Len(CreatedTitles(calls)) :
           \A m \in Range(repoAtStart.milestones) : m.title # CreatedTitles(calls)[k]
    /\ ~pretend => CreatedTitles(calls) = Titles(Logged(log, "add milestone"))
    /\ Distinct(Titles(Logged(log, "add milestone")))
    /\ \A k \in 1..Len(Logged(log, "add milestone")) :
           \A m \in Range(repoAtStart.milestones) :
               m.title # Logged(log, "add milestone")[k].args[1]
    /\ pc = "issue" /\ Strip(ticketMap.milestone) # "" =>
           /\ Has(existingMilestones, Strip(ticketMap.milestone))
           /\ milestone = existingMilestones[Strip(ticketMap.milestone)]

\* a real run has converted a ticket of milestone "M1" and then one of
\* milestone " M1 " and called create_milestone once
MilestoneCreatedOnceWitness ==
    /\ ~pretend
    /\ pc = "done"
    /\ Len(ticketsCsv) = 3
    /\ ticketsCsv[2][5] = "M1"
    /\ ticketsCsv[3][5] = " M1 "
    /\ CreatedTitles(calls) = <<"M1">>
    /\ Len(Called(calls, "create_issue")) = 2

\* C3: no two titles of the milestone map have milestones of the same number
MilestoneMapOneToOne ==
    \A t1, t2 \in DOMAIN existingMilestones :
        t1 # t2 => existingMilestones[t1].number # existingMilestones[t2].number

\* the range of ids to convert, as documented
InRange(ticketId) ==
    /\ firstTicketIdToConvert <= ticketId
    /\ lastTicketIdToConvert = 0 \/ ticketId <= lastTicketIdToConvert

\* C4: a ticket is converted if and only if its id is at least
\* firstTicketIdToConvert and either lastTicketIdToConvert is 0 or the id is
\* at most lastTicketIdToConvert: the steps of a conversion are taken only
\* for such a ticket, and every row the loop has read is logged as converted
\* if its id is in the range and as skipped if not
ConvertedIffInRange ==
    /\ pc \in {"assignee", "milestone", "issue", "label", "comment", "close"} =>
           InRange(ticketMap.id)
    /\ \A k \in 1..Len(log) :
           /\ log[k].text = "convert ticket" => InRange(log[k].args[1])
           /\ log[k].text = "skip ticket" => ~InRange(log[k].args[1])
    /\ pc \in {"tickets", "done"} =>
           \A r \in 2..rowIndex :
               LET ticketId == Long(ticketsCsv[r][1])
                   logged == SelectSeq(log, LAMBDA line : line.row = r)
               IN  IF InRange(ticketId)
                   THEN /\ Len(logged) > 0
                        /\ logged[1].text \in {"add milestone", "convert ticket"}
                        /\ Len(Logged(logged, "skip ticket")) = 0
                   ELSE logged = AtRow(<<Log("skip ticket",
                                   <<ticketId, ticketsCsv[r][8]>>)>>, r)

\* with first=2 and last=0 ticket 1 has been skipped and ticket 2 converted
ConvertedIffInRangeWitness ==
    /\ firstTicketIdToConvert = 2
    /\ lastTicketIdToConvert = 0
    /\ pc = "done"
    /\ \E k \in 1..Len(log) : log[k].text = "skip ticket" /\ log[k].args[1] = 1
    /\ \E k \in 1..Len(log) : log[k].text = "convert ticket" /\ log[k].args[1] = 2

\* a step that skips a ticket
SkipsTicket == pc = "tickets" /\ pc' = "tickets" /\ rowIndex' = rowIndex + 1

Phase(call) ==
    CASE call.name = "get_user" -> 1
      [] call.name = "create_milestone" -> 2
      [] call.name = "create_issue" -> 3
      [] call.name = "edit" /\ "labels" \in DOMAIN call.args -> 4
      [] call.name = "create_comment" -> 5
      [] call.name = "edit" /\ "state" \in DOMAIN call.args -> 6
      [] OTHER -> 0

Prefix(a, b) == Len(a) <= Len(b) /\ SubSeq(b, 1, Len(a)) = a

\* the calls made for the tickets, after the load phase
TicketCalls == SelectSeq(calls, LAMBDA call : call.row > 0)

\* the summaries of the tickets to convert, in the order of the ticket CSV
SummariesToConvert ==
    LET rows == SelectSeq(SubSeq(ticketsCsv, 2, Len(ticketsCsv)),
                    LAMBDA row : /\ Len(row) = TICKET_COLUMN_COUNT
                                 /\ IsLong(row[1])
                                 /\ InRange(Long(row[1])))
    IN  [k \in 1..Len(rows) |-> rows[k][8]]

\* the bodies of the comments of a ticket, in the order of the comment CSV
BodiesOf(ticketId) ==
    LET rows == SelectSeq(SubSeq(commentsCsv, 2, Len(commentsCsv)),
                    LAMBDA row : /\ Len(row) = COMMENT_COLUMN_COUNT
                                 /\ IsLong(row[1])
                                 /\ Long(row[1]) = ticketId)
    IN  [k \in 1..Len(rows) |-> rows[k][4]]

\* C6: in a real run the calls made for the tickets come row by row in the
\* order of the ticket CSV, only for tickets to convert, and for one ticket
\* in the order get_user, create_milestone, create_issue, edit of the
\* labels, create_comment for each comment in the order of the comment CSV,
\* edit of the state; at the end of a run each ticket to convert has its
\* create_issue, its comments, and its closing edit if it is closed
CallsInTicketOrder ==
    ~pretend =>
        /\ \A j, k \in 1..Len(TicketCalls) :
               j < k =>
                   \/ TicketCalls[j].row < TicketCalls[k].row
                   \/ /\ TicketCalls[j].row = TicketCalls[k].row
                      /\ \/ Phase(TicketCalls[j]) < Phase(TicketCalls[k])
                         \/ Phase(TicketCalls[j]) = 5 /\ Phase(TicketCalls[k]) = 5
        /\ \A k \in 1..Len(TicketCalls) :
               LET call == TicketCalls[k]
                   row == ticketsCsv[call.row]
               IN  /\ Phase(call) # 0
                   /\ InRange(Long(row[1]))
                   /\ call.name = "create_issue" => call.args.title = row[8]
                   /\ call.name = "create_milestone" => call.args.title = Strip(row[5])
                   /\ Phase(call) = 6 => row[6] = "closed"
        /\ Prefix([k \in 1..Len(Called(calls, "create_issue")) |->
                      Called(calls, "create_issue")[k].args.title],
                  SummariesToConvert)
        /\ \A r \in {q \in 2..rowIndex : Len(ticketsCsv[q]) = TICKET_COLUMN_COUNT
                                           /\ IsLong(ticketsCsv[q][1])} :
               LET made == SelectSeq(calls, LAMBDA call : call.row = r)
                   bodies == [k \in 1..Len(Called(made, "create_comment")) |->
                                 Called(made, "create_comment")[k].args.body]
                   ticketId == Long(ticketsCsv[r][1])
                   closings == SelectSeq(made, LAMBDA call : Phase(call) = 6)
               IN  /\ InRange(ticketId) => Prefix(bodies, BodiesOf(ticketId))
                   /\ InRange(ticketId) /\ (r < rowIndex \/ pc \in {"tickets", "done"})
                      /\ error # GithubException =>
                          /\ Len(Called(made, "create_issue")) = 1
                          /\ bodies = BodiesOf(ticketId)
                          /\ Len(closings) =
                                 IF ticketsCsv[r][6] = "closed" THEN 1 ELSE 0

\* a real run has converted ticket 2 and then ticket 1, each with a
\* milestone, labels, a comment and the closing edit
CallsInTicketOrderWitness ==
    /\ ~pretend
    /\ pc = "done"
    /\ Len(ticketsCsv) = 3
    /\ Long(ticketsCsv[2][1]) = 2
    /\ Long(ticketsCsv[3][1]) = 1
    /\ Len(Called(calls, "create_issue")) = 2
    /\ Len(Called(calls, "create_comment")) = 3
    /\ Len(Called(calls, "create_milestone")) = 1
    /\ Len(Called(calls, "edit")) = 4
    /\ Len(Called(TicketCalls, "get_user")) = 1

\* the calls that returned
Returned(made, name) ==
    SelectSeq(made, LAMBDA call : call.name = name /\ ~call.raised)

\* C7: no step of a run is taken once a step has failed: a step starts with
\* no error, and a step that fails (with a _ConfigError, a _CsvDataError, a
\* ValueError or an exception of a tracker call) ends the run, makes no
\* call that changes the tracker and none after a call that raised, and
\* leaves the repository as it is, with every issue and milestone the run
\* has created
FailFast ==
    [][/\ pc # "failed"
       /\ error = NoError
       /\ error' # NoError <=> pc' = "failed"
       /\ error' # NoError =>
              /\ repo' = repo
              /\ Prefix(calls, calls')
              /\ \A k \in Len(calls) + 1..Len(calls') :
                     \/ calls'[k].name \in ReadCalls
                     \/ calls'[k].raised /\ k = Len(calls')
              /\ Len(repo'.issues) =
                     Len(repoAtStart.issues) + Len(Returned(calls', "create_issue"))
              /\ Len(repo'.milestones) =
                     Len(repoAtStart.milestones)
                         + Len(Returned(calls', "create_milestone"))]_vars

\* a real run has failed in a call to the tracker for its second ticket,
\* with the issue of the first ticket created and closed
FailFastWitness ==
    /\ pc = "failed"
    /\ error = GithubException
    /\ rowIndex = 3
    /\ Len(ticketsCsv) = 3
    /\ Len(Returned(calls, "create_issue")) = 1
    /\ Len(repo.issues) = Len(repoAtStart.issues) + 1
    /\ repo.issues[Len(repo.issues)].state = "closed"
    /\ calls[Len(calls)].raised

\* an issue without its number
Content(created) ==
    [title |-> created.title, body |-> created.body, assignee |-> created.assignee,
     milestone |-> created.milestone, labels |-> created.labels,
     comments |-> created.comments, state |-> created.state]

\* C8: in a real run that follows a real run with the same inputs on the
\* same repository (a first run in which no call to the tracker raised an
\* exception), create_milestone is not called; when the second run is
\* through, each run has called create_issue once for each ticket to
\* convert, and the repository holds, after the issues it had before the
\* first run, the issues of the first run and then the same issues again,
\* with the milestones as the first run left them
RerunDuplicatesIssuesOnly ==
    history # <<>> /\ ~history[1].pretend /\ history[1].error # GithubException =>
        /\ Len(Called(calls, "create_milestone")) = 0
        /\ repo.milestones = history[1].repoAtEnd.milestones
        /\ pc = "done" =>
               LET before == Len(history[1].repoAtStart.issues)
                   converted == Len(SummariesToConvert)
               IN  /\ history[1].error = NoError
                   /\ Len(Returned(history[1].calls, "create_issue")) = converted
                   /\ Len(Returned(calls, "create_issue")) = converted
                   /\ Len(repo.issues) = before + 2 * converted
                   /\ \A k \in 1..converted :
                          /\ repo.issues[before + k].title = SummariesToConvert[k]
                          /\ Content(repo.issues[before + converted + k])
                                 = Content(repo.issues[before + k])

\* a second real run is through, after a first one that created a
\* milestone, and both have converted two tickets
RerunDuplicatesIssuesOnlyWitness ==
    /\ history # <<>>
    /\ ~history[1].pretend
    /\ pc = "done"
    /\ Len(Called(history[1].calls, "create_milestone")) > 0
    /\ Len(Returned(calls, "create_issue")) = 2
    /\ Len(repo.issues) = Len(history[1].repoAtStart.issues) + 4

\* the rows of the ticket CSV with a ticket to convert, in the order of the file
RowsToConvert ==
    SelectSeq([r \in 1..Len(ticketsCsv) |-> r],
        LAMBDA r : /\ r > 1
                   /\ Len(ticketsCsv[r]) = TICKET_COLUMN_COUNT
                   /\ IsLong(ticketsCsv[r][1])
                   /\ InRange(Long(ticketsCsv[r][1])))

\* ticket 1 with milestone "M1" and ticket 2 without a milestone
ExampleTickets ==
    <<TicketHeader,
      TicketRow([DefaultTicket EXCEPT !.id = 1, !.milestone = "M1"]),
      TicketRow([DefaultTicket EXCEPT !.id = 2, !.milestone = ""])>>

\* C9: in a dry run the k-th ticket to convert, in the order of the ticket
\* CSV, is logged with issue number (number of issues, open and closed, of
\* the repository) + k, so that skipped tickets take no number and the
\* numbers differ; with tickets 1 (milestone "M1") and 2 (no milestone) and
\* an empty repository, "M1" gets number 1, ticket 1 issue #1 with
\* milestone 1 and ticket 2 issue #2 with milestone 0 (none)
DryRunNumbers ==
    pretend =>
        LET issued == Logged(log, "issue")
        IN  /\ Len(issued) <= Len(RowsToConvert)
            /\ \A k \in 1..Len(issued) :
                   /\ issued[k].args[1] = Len(repoAtStart.issues) + k
                   /\ issued[k].row = RowsToConvert[k]
            /\ Distinct([k \in 1..Len(issued) |-> issued[k].args[1]])
            /\ pc \in {"tickets", "done"} /\ rowIndex > 0 =>
                   /\ Len(issued) = Cardinality({k \in 1..Len(RowsToConvert) :
                                                     RowsToConvert[k] <= rowIndex})
                   /\ fakeIssueId = Len(repoAtStart.issues) + Len(issued) + 1
            /\ pc = "done" /\ ticketsCsv = ExampleTickets /\ repoAtStart = EmptyRepo =>
                   /\ existingMilestones = ("M1" :> _FakeMilestone(1, "M1"))
                   /\ issued = AtRow(<<Log("issue", <<1, "hugo", "hugo", "M1", 1>>)>>, 2)
                                   \o AtRow(<<Log("issue", <<2, "hugo", "hugo", "", 0>>)>>, 3)

\* the dry run of tickets 1 (milestone "M1") and 2 (no milestone) on an empty
\* repository is through
DryRunNumbersWitness ==
    /\ pretend
    /\ pc = "done"
    /\ ticketsCsv = ExampleTickets
    /\ repoAtStart = EmptyRepo
    /\ firstTicketIdToConvert = 1
    /\ Len(Logged(log, "issue")) = 2

\* what a run logs of its decisions: the tickets skipped and converted, the
\* milestone titles, the owner and the assignee, the labels and the comment
\* authors, without the numbers of issues and milestones
Decisions(lines) ==
    [k \in 1..Len(lines) |->
        IF lines[k].text = "issue"
        THEN [lines[k] EXCEPT !.args = SubSeq(@, 2, 4)]
        ELSE lines[k]]

\* the read calls among these calls
Reads(made) == SelectSeq(made, LAMBDA call : call.name \in ReadCalls)

\* C10: a real run that follows a dry run with the same inputs finds the
\* repository as the dry run found it, makes the read calls of the dry run
\* and logs the decisions of the dry run (skip or convert, milestone title,
\* owner and assignee, labels, comment authors) as far as it gets; when it
\* ends without an exception of a tracker call it has logged all of them
\* and ended with the error of the dry run (none, or the same _ConfigError,
\* _CsvDataError or ValueError at the same place)
RealRunAsRehearsed ==
    history # <<>> /\ history[1].pretend =>
        /\ repoAtStart = history[1].repoAtStart
        /\ Prefix(Decisions(log), Decisions(history[1].log))
        /\ Prefix(Reads(calls), history[1].calls)
        /\ error # NoError /\ error # GithubException => error = history[1].error
        /\ pc \in {"done", "failed"} /\ error # GithubException =>
               /\ error = history[1].error
               /\ Decisions(log) = Decisions(history[1].log)
               /\ Reads(calls) = history[1].calls

\* a real run after a dry run has converted a ticket and then failed for
\* the next with the _ConfigError the dry run ended with
RealRunAsRehearsedWitness ==
    /\ history # <<>>
    /\ history[1].pretend
    /\ pc = "failed"
    /\ error.type = "_ConfigError"
    /\ error = history[1].error
    /\ rowIndex = 3
    /\ Len(Returned(calls, "create_issue")) = 1

(***************************************************************************)
(* Runs over label definitions: definitions made of groups                 *)
(* field=value: label, with and without blanks and quotes, with labels the *)
(* repository has and labels it has not, and definitions made of any       *)
(* tokens in any order.                                                    *)
(***************************************************************************)
\* the texts joined with the separator between them
RECURSIVE Join(_, _)
Join(texts, separator) ==
    IF Len(texts) = 0 THEN ""
    ELSE IF Len(texts) = 1 THEN texts[1]
    ELSE texts[1] \o separator \o Join(Tail(texts), separator)

LabelGroups ==
    {"type=defect: bug", "type = defect : wontfix", "resolution='won t fix': wontfix",
     "type=\"defect\":enhancement", "type=defect: nolabel", "type=task: ''"}

LabelTokens == {"bug", "=", ":", ","}

\* a single ticket
OneTicket(ticket) == <<TicketHeader, TicketRow(ticket)>>

\* label definitions made of groups, also with a blank in front
InitLabelGroups ==
    \E groups \in SeqsUpTo(LabelGroups, MaxGroups), indent \in {"", " "},
       t \in {"defect", "task"}, r \in {"wontfix", "won t fix"} :
        /\ Len(groups) = 0 => indent = ""
        /\ Inputs(OneTicket([DefaultTicket EXCEPT !.type = t, !.resolution = r]),
                  DefaultComments, DefaultUserMapping,
                  indent \o Join(groups, ", "), 1, 0, EmptyRepo)

\* label definitions made of tokens
InitLabelTokens ==
    \E tokens \in SeqsUpTo(LabelTokens, MaxTokens) :
        Inputs(OneTicket([DefaultTicket EXCEPT !.type = "bug"]), DefaultComments,
               DefaultUserMapping, Join(tokens, " "), 1, 0, EmptyRepo)

\* the pieces the texts to translate are made of
TextPieces == {"see ", "ticket:", "1", "2"}

\* the maps from ticket ids to issue numbers
IssuesOfTickets ==
    {EmptyDict, (1 :> 7), (1 :> 7) @@ (12 :> 34), (1212 :> 5),
     (121 :> 9) @@ (1212 :> 5)}

\* a translator with its map, and a text to translate; migrateTickets has
\* not been started
InitTranslate ==
    /\ \E pieces \in SeqsUpTo(TextPieces, MaxPieces) : sourceText = Join(pieces, "")
    /\ ticketsToIssuesMap \in IssuesOfTickets
    /\ translated = <<>>
    /\ ticketsCsv = <<>>
    /\ commentsCsv = <<>>
    /\ userMapping = DefaultUserMapping
    /\ labelMapping = ""
    /\ firstTicketIdToConvert = 1
    /\ lastTicketIdToConvert = 0
    /\ repo = EmptyRepo
    /\ pretend = TRUE
    /\ repoAtStart = repo
    /\ history = <<>>
    /\ StartOfRun

SpecTranslate == InitTranslate /\ [][Translate]_vars

\* the entries of user mappings: well-formed ones for the users hugo, sepp
\* and everyone else, and malformed ones
UserEntries ==
    {"hugo: sepp", "hugo:roskakori", " hugo : sepp ", "*:*", " * : * ",
     "*: roskakori", " *: roskakori", "sepp: anna", "hugo", "hugo:sepp:hugo", ": sepp", "hugo:",
     ""}

InitUserDefinitions ==
    /\ \E entries \in SeqsUpTo(UserEntries, MaxMappings), owner \in {"hugo", "anna"} :
           Inputs(OneTicket([DefaultTicket EXCEPT !.owner = owner]), DefaultComments,
                  Join(entries, ","), DefaultLabelMapping, 1, 0, EmptyRepo)
    /\ FirstRun

SpecUsers == InitUserDefinitions /\ [][Next]_vars

InitLabelDefinitions ==
    /\ InitLabelGroups \/ InitLabelTokens
    /\ FirstRun

SpecLabels == InitLabelDefinitions /\ [][Next]_vars


(***************************************************************************)
(* Properties of the label transformations.                                *)
(***************************************************************************)
TracFields == {"type", "resolution", "bug"}

TracValues == {"defect", "task", "wontfix", "won t fix", "bug"}

\* the indices of the rules for this field and this value
Matching(transformations, tracField, tracValue) ==
    {k \in 1..Len(transformations) :
        /\ transformations[k][1] = tracField
        /\ transformations[k][2] = tracValue}

\* the label of the first-listed rule for this field and this value
FirstListed(transformations, tracField, tracValue) ==
    LET matching == Matching(transformations, tracField, tracValue)
    IN  IF matching = {} THEN <<>>
        ELSE <<transformations[CHOOSE k \in matching :
                                   \A j \in matching : k <= j][3]>>

\* the lines "add label" of the ticket at hand
LabelsLogged ==
    SelectSeq(Logged(log, "add label"), LAMBDA line : line.row = rowIndex)

\* C11: labelFor(field, value) gives the label of the rule with the smallest
\* index whose field and value equal the arguments, and no label when no
\* rule matches or the list is empty; the labels logged for a ticket are
\* the ones of the first-listed rules for its type and its resolution
LabelForFirstMatch ==
    LET transformations == labelTransformations.transformations
    IN  /\ \A tracField \in TracFields, tracValue \in TracValues :
              labelFor(transformations, tracField, tracValue)
                  = FirstListed(transformations, tracField, tracValue)
        /\ labelFor(<<>>, "type", "defect") = <<>>
        /\ pc \in {"comment", "close"} =>
              [k \in 1..Len(LabelsLogged) |-> LabelsLogged[k].args]
                  = (IF FirstListed(transformations, "type", ticketMap.type) = <<>>
                     THEN <<>>
                     ELSE <<FirstListed(transformations, "type", ticketMap.type)>>)
                    \o (IF FirstListed(transformations, "resolution", ticketMap.resolution) = <<>>
                        THEN <<>>
                        ELSE <<FirstListed(transformations, "resolution", ticketMap.resolution)>>)

\* two rules for type defect that name different labels, and a ticket of
\* type defect that got the first-listed one
LabelForFirstMatchWitness ==
    /\ labelMapping = "type=defect: bug, type = defect : wontfix"
    /\ labelTransformations.transformations
           = <<(<<"type", "defect", "bug">>), (<<"type", "defect", "wontfix">>)>>
    /\ pc = "close"
    /\ ticketMap.type = "defect"
    /\ Len(LabelsLogged) = 1
    /\ LabelsLogged[1].args = <<"bug">>


\* a token without its quote delimiters
Unquoted(text) ==
    IF Len(text) >= 2 /\ CharAt(text, 1) \in Quotes
           /\ CharAt(text, Len(text)) = CharAt(text, 1)
    THEN SubSeq(text, 2, Len(text) - 1)
    ELSE text

\* the labels the groups of a definition name: of each comma-separated
\* group with one colon and a "=" before it, the text after the colon
LabelsNamed(definition) ==
    LET groups == Split(definition, ",")
    IN  {Unquoted(Strip(Split(groups[k], ":")[2])) :
            k \in {j \in 1..Len(groups) :
                      /\ Len(Split(groups[j], ":")) = 2
                      /\ Find(Split(groups[j], ":")[1], "=", 1) > 0}}

LabelsLoaded == pc \notin {"comments", "issues", "milestones", "users", "labels"}

IsWord(text) ==
    /\ Len(LineTokens(text, 1)) = 1
    /\ LineTokens(text, 1)[1].type \in {"NAME", "NUMBER", "STRING"}

\* a group of the shape field=value:label
IsGroup(group) ==
    LET parts == Split(group, ":")
        sides == Split(parts[1], "=")
    IN  /\ Len(parts) = 2
        /\ Len(sides) = 2
        /\ IsWord(sides[1])
        /\ IsWord(sides[2])
        /\ IsWord(parts[2])

\* a definition made of groups field=value:label with commas between them
IsWellFormed(definition) ==
    \A k \in 1..Len(Split(definition, ",")) : IsGroup(Split(definition, ",")[k])

\* C13: a label definition that is not a comma-separated list of groups
\* field=value:label fails with a _ConfigError for option labels, also when
\* it ends in the middle of a group or has an operator in the place of a
\* field or a value
MalformedRejected ==
    LabelsLoaded /\ Len(labelMapping) > 0 /\ ~IsWellFormed(labelMapping)
        => pc = "failed" /\ error = ConfigError(OPTION_LABELS)


\* the triple (field, value, label) a group field=value:label stands for
RuleOf(group) ==
    LET parts == Split(group, ":")
        sides == Split(parts[1], "=")
    IN  <<Unquoted(Strip(sides[1])), Unquoted(Strip(sides[2])),
          Unquoted(Strip(parts[2]))>>

\* the triples of a well-formed definition, in the order of its groups
RulesOf(definition) ==
    IF Len(definition) = 0 THEN <<>>
    ELSE [k \in 1..Len(Split(definition, ",")) |-> RuleOf(Split(definition, ",")[k])]

\* C14: a well-formed definition of n groups field=value:label whose labels
\* the repository has is parsed into the n triples (field, value, label) of
\* its groups, in their order, without the quotes of quoted tokens and
\* whatever blanks are around the tokens; the empty definition gives the
\* empty rule list
ParsedAsWritten ==
    /\ LabelsLoaded
    /\ Len(labelMapping) = 0 \/ IsWellFormed(labelMapping)
    /\ \A k \in 1..Len(RulesOf(labelMapping)) : RulesOf(labelMapping)[k][3] \in RepoLabels
    => /\ error # ConfigError(OPTION_LABELS)
       /\ labelTransformations.transformations = RulesOf(labelMapping)


(***************************************************************************)
(* Properties of the user mapping.                                         *)
(***************************************************************************)
TracUsers == {"hugo", "sepp", "anna", "x"}

UsersLoaded == pc \notin {"comments", "issues", "milestones", "users"}

\* building the user map failed
UserMapFailed ==
    /\ pc = "failed"
    /\ error = ConfigError(OPTION_USERS)
    /\ rowIndex = 0
    /\ tracToGithubUserMap = EmptyDict

\* resolve(tracUser): _githubUserFor without the existence check
resolve(tracUser) ==
    _githubUserFor(tracToGithubUserMap, _validatedGithubUsers, tracUser, FALSE)

\* C15: for the empty user mapping and for the mapping *:*, with blanks
\* around its parts or without, the user map is built and every Trac user
\* resolves to the Github user of the same name
IdentityByDefault ==
    UsersLoaded /\ userMapping \in {"", "*:*", " * : * "}
        => /\ ~UserMapFailed
           /\ \A tracUser \in TracUsers :
                  /\ resolve(tracUser).error = NoError
                  /\ resolve(tracUser).result = tracUser


\* the entries of a user mapping and the two sides of each
EntriesOf(definition) == Split(definition, ",")

SourceOf(entry) == Strip(Split(entry, ":")[1])

TargetOf(entry) == Strip(Split(entry, ":")[2])

SourcesOf(definition) ==
    {SourceOf(EntriesOf(definition)[k]) : k \in 1..Len(EntriesOf(definition))}

\* the target the definition gives for a source it has an entry for
TargetFor(definition, source) ==
    TargetOf(EntriesOf(definition)[CHOOSE k \in 1..Len(EntriesOf(definition)) :
                                      SourceOf(EntriesOf(definition)[k]) = source])

\* the Github user the definition gives for a Trac user, "" for none
Resolved(definition, tracUser) ==
    LET target == IF tracUser \in SourcesOf(definition)
                  THEN TargetFor(definition, tracUser)
                  ELSE IF "*" \in SourcesOf(definition)
                  THEN TargetFor(definition, "*")
                  ELSE ""
    IN  IF target = "*" THEN tracUser ELSE target

TicketAtHand == pc \in {"milestone", "issue", "label", "comment", "close"}

\* C16: with a user map that was built, resolve(tracUser) is the target of
\* the entry for tracUser when the definition has one, else the target of
\* the entry for *, else a _ConfigError for option users; a target * stands
\* for tracUser itself.  For "hugo: sepp, *: roskakori" hugo resolves to
\* sepp and everyone else to roskakori.  The assignee of a ticket is what
\* its stripped owner resolves to
ResolveByKeyThenWildcard ==
    /\ UsersLoaded /\ ~UserMapFailed =>
           \A tracUser \in TracUsers :
               IF {tracUser, "*"} \cap SourcesOf(userMapping) = {}
               THEN resolve(tracUser).error = ConfigError(OPTION_USERS)
               ELSE /\ resolve(tracUser).error = NoError
                    /\ resolve(tracUser).result = Resolved(userMapping, tracUser)
    /\ UsersLoaded /\ ~UserMapFailed /\ userMapping = "hugo: sepp, *: roskakori" =>
           /\ resolve("hugo").result = "sepp"
           /\ \A tracUser \in TracUsers \ {"hugo"} :
                  resolve(tracUser).result = "roskakori"
    /\ TicketAtHand =>
           githubAssignee = Resolved(userMapping, Strip(ticketMap.owner))
    /\ \A k \in 1..Len(Called(calls, "create_issue")) :
           Called(calls, "create_issue")[k].args.assignee
               = Resolved(userMapping, Strip(ticketsCsv[Called(calls, "create_issue")[k].row][3]))

\* the example: the issue of anna's ticket is assigned to roskakori
ResolveByKeyThenWildcardWitness ==
    /\ userMapping = "hugo: sepp, *: roskakori"
    /\ tracToGithubUserMap = ("hugo" :> "sepp") @@ ("*" :> "roskakori")
    /\ pc = "done"
    /\ ticketsCsv[2][3] = "anna"
    /\ Len(Returned(calls, "create_issue")) = 1
    /\ Returned(calls, "create_issue")[1].args.assignee = "roskakori"


\* an entry with a source and a target, none of them empty
IsMapping(entry) ==
    /\ Len(Split(entry, ":")) = 2
    /\ Len(SourceOf(entry)) > 0
    /\ Len(TargetOf(entry)) > 0

\* the entries of the definition that have this source
EntriesFor(definition, source) ==
    {k \in 1..Len(EntriesOf(definition)) :
        /\ IsMapping(EntriesOf(definition)[k])
        /\ SourceOf(EntriesOf(definition)[k]) = source}

\* C17: a user mapping with two entries for the same Trac user, the
\* wildcard * included, fails with a _ConfigError for option users, whether
\* the two entries name the same Github user or not; in a user map that was
\* built every key has exactly one entry in the definition
DuplicateSourceRejected ==
    /\ UsersLoaded /\ (\E source \in SourcesOf(userMapping) :
                           Cardinality(EntriesFor(userMapping, source)) >= 2)
           => UserMapFailed
    /\ UsersLoaded /\ ~UserMapFailed =>
           /\ DOMAIN tracToGithubUserMap = SourcesOf(userMapping)
           /\ \A source \in DOMAIN tracToGithubUserMap :
                  Cardinality(EntriesFor(userMapping, source)) = 1

\* hugo is mapped to sepp twice: sepp was checked, then the second entry
\* failed
DuplicateSourceRejectedWitness ==
    /\ userMapping = "hugo: sepp, hugo : sepp "
    /\ Cardinality(EntriesFor(userMapping, "hugo")) = 2
    /\ UserMapFailed
    /\ Len(Returned(calls, "get_user")) = 1


\* C18: a user mapping with an entry that does not split at ":" into two
\* parts, both non-empty once stripped, fails with a _ConfigError for
\* option users: an entry without colon, with two colons, without source,
\* without target, and the empty entry, as after a comma at the end
MalformedEntryRejected ==
    UsersLoaded /\ (\E k \in 1..Len(EntriesOf(userMapping)) :
                        ~IsMapping(EntriesOf(userMapping)[k]))
        => UserMapFailed

\* a well-formed entry and a comma with nothing after it
MalformedEntryRejectedWitness ==
    /\ userMapping = "hugo: sepp,"
    /\ EntriesOf(userMapping) = <<"hugo: sepp", "">>
    /\ UserMapFailed
    /\ Len(Returned(calls, "get_user")) = 1


\* the positions in calls of the calls with this name
PositionsOf(made, name) == {k \in 1..Len(made) : made[k].name = name}

\* the user was checked with success before the k-th call
CheckedBefore(githubUser, k) ==
    \E j \in 1..(k - 1) :
        /\ calls[j].name = "get_user"
        /\ ~calls[j].raised
        /\ calls[j].args.login = githubUser

\* C19: the assignee of every create_issue call and every Github user the
\* user map names have passed the check get_user before: the assignee is in
\* _validatedGithubUsers, in a dry run as well; when the check of a user
\* fails, the run ends with a _ConfigError for option users and the ticket
\* at hand gets no issue
AssigneeValidated ==
    /\ \A k \in PositionsOf(calls, "create_issue") :
           /\ calls[k].args.assignee \in _validatedGithubUsers
           /\ calls[k].args.assignee \in HubUsers
           /\ CheckedBefore(calls[k].args.assignee, k)
    /\ TicketAtHand =>
           githubAssignee \in _validatedGithubUsers \cap HubUsers
    /\ \A tracUser \in DOMAIN tracToGithubUserMap :
           tracToGithubUserMap[tracUser] # "*" =>
               tracToGithubUserMap[tracUser] \in _validatedGithubUsers \cap HubUsers
    /\ \A k \in PositionsOf(calls, "get_user") :
           calls[k].raised =>
               /\ k = Len(calls)
               /\ pc = "failed"
               /\ error = ConfigError(OPTION_USERS)
               /\ \A j \in PositionsOf(calls, "create_issue") : calls[j].row # calls[k].row
               /\ \A j \in 1..Len(log) : log[j].row # calls[k].row

\* hugo's ticket got its issue, then anna, the owner of the next ticket,
\* was not found
AssigneeValidatedWitness ==
    /\ ~pretend
    /\ userMapping = "*:*"
    /\ Len(Returned(calls, "create_issue")) = 1
    /\ Returned(calls, "create_issue")[1].args.assignee = "hugo"
    /\ calls[Len(calls)] = [row |-> 3, name |-> "get_user",
                            args |-> [login |-> "anna"], raised |-> TRUE]
    /\ pc = "failed"

\* the logins of the get_user calls
LoginsChecked(made) ==
    [k \in 1..Len(Called(made, "get_user")) |-> Called(made, "get_user")[k].args.login]

\* C20: in a run get_user is called at most once for a name: a step only
\* adds to _validatedGithubUsers, the set holds exactly the names whose
\* get_user returned, and a step calls get_user only for names that are
\* not in the set
ValidatedOnce ==
    [][/\ _validatedGithubUsers \subseteq _validatedGithubUsers'
       /\ _validatedGithubUsers'
              = {Returned(calls', "get_user")[k].args.login :
                     k \in 1..Len(Returned(calls', "get_user"))}
       /\ Distinct(LoginsChecked(calls'))
       /\ \A k \in (Len(calls) + 1)..Len(calls') :
              calls'[k].name = "get_user" =>
                  calls'[k].args.login \notin _validatedGithubUsers]_vars

\* two tickets of hugo, one check of hugo
ValidatedOnceWitness ==
    /\ ~pretend
    /\ pc = "done"
    /\ userMapping = "*:*"
    /\ Len(Returned(calls, "create_issue")) = 2
    /\ \A k \in 1..2 : Returned(calls, "create_issue")[k].args.assignee = "hugo"
    /\ LoginsChecked(calls) = <<"hugo">>
    /\ _validatedGithubUsers = {"hugo"}


(***************************************************************************)
(* Properties of the CSV readers.                                          *)
(***************************************************************************)
\* the rows after the header that cannot be read: wrong number of cells or
\* an id that is no number
Unreadable(csv, columnCount) ==
    {k \in 2..Len(csv) : Len(csv[k]) # columnCount \/ ~IsLong(csv[k][1])}

\* the first of them, 0 for none
FirstUnreadable(csv, columnCount) ==
    IF Unreadable(csv, columnCount) = {} THEN 0
    ELSE CHOOSE k \in Unreadable(csv, columnCount) :
             \A j \in Unreadable(csv, columnCount) : k <= j

\* the comments of the map, all tickets together
CommentsMapped ==
    UNION {{tracTicketToCommentsMap[ticketId][k] :
               k \in 1..Len(tracTicketToCommentsMap[ticketId])} :
           ticketId \in DOMAIN tracTicketToCommentsMap}

\* C21: a row after the header with a number of cells other than 9 in the
\* ticket CSV, other than 4 in the comment CSV, raises a _CsvDataError that
\* names the file and the number of the row, the header being row 1, as
\* soon as the reader gets to it; the row gives no ticket and no comment,
\* no row after it is read, and the header gives no ticket and no comment
WrongColumnCountRaises ==
    LET badComment == FirstUnreadable(commentsCsv, COMMENT_COLUMN_COUNT)
        badTicket == FirstUnreadable(ticketsCsv, TICKET_COLUMN_COUNT)
    IN  /\ pc # "comments" /\ badComment > 0
               /\ Len(commentsCsv[badComment]) # COMMENT_COLUMN_COUNT
             => /\ pc = "failed"
                /\ error = [type |-> "_CsvDataError", option |-> "",
                            file |-> "comments", row |-> badComment]
                /\ tracTicketToCommentsMap = EmptyDict
                /\ calls = <<>>
        /\ badTicket > 0 /\ Len(ticketsCsv[badTicket]) # TICKET_COLUMN_COUNT =>
               /\ rowIndex <= badTicket
               /\ rowIndex = badTicket =>
                      /\ pc = "failed"
                      /\ error = [type |-> "_CsvDataError", option |-> "",
                                  file |-> "tickets", row |-> badTicket]
                      /\ ticketMap = NoTicket
                      /\ \A k \in 1..Len(calls) : calls[k].row # badTicket
                      /\ \A k \in 1..Len(log) : log[k].row # badTicket
        /\ \A k \in 1..Len(calls) : calls[k].row # 1
        /\ \A k \in 1..Len(log) : log[k].row # 1
        /\ TicketAtHand =>
               /\ rowIndex >= 2
               /\ Len(ticketsCsv[rowIndex]) = TICKET_COLUMN_COUNT
               /\ ticketMap.summary = ticketsCsv[rowIndex][8]
        /\ pc \notin {"comments", "failed"} /\ Len(commentsCsv) > 0 =>
               Cardinality(CommentsMapped) <= Len(commentsCsv) - 1

\* the second ticket row has three cells: the first ticket got its issue,
\* then the run failed at row 3
WrongColumnCountRaisesWitness ==
    /\ ~pretend
    /\ Len(ticketsCsv) = 3
    /\ Len(ticketsCsv[2]) = TICKET_COLUMN_COUNT
    /\ Len(ticketsCsv[3]) = 3
    /\ pc = "failed"
    /\ error = [type |-> "_CsvDataError", option |-> "", file |-> "tickets", row |-> 3]
    /\ Len(Returned(calls, "create_issue")) = 1


\* C22: a row after the header with the right number of cells and an id
\* that is no number raises, as soon as the reader gets to it, an error of
\* the kind raised for a row with a wrong number of cells: a _CsvDataError
\* that names the file and the number of the row
InvalidIdRaisesCsvDataError ==
    LET badComment == FirstUnreadable(commentsCsv, COMMENT_COLUMN_COUNT)
        badTicket == FirstUnreadable(ticketsCsv, TICKET_COLUMN_COUNT)
    IN  /\ pc # "comments" /\ badComment > 0
               /\ Len(commentsCsv[badComment]) = COMMENT_COLUMN_COUNT
             => /\ pc = "failed"
                /\ error = [type |-> "_CsvDataError", option |-> "",
                            file |-> "comments", row |-> badComment]
        /\ badTicket > 0 /\ Len(ticketsCsv[badTicket]) = TICKET_COLUMN_COUNT
               /\ rowIndex = badTicket
             => /\ pc = "failed"
                /\ error = [type |-> "_CsvDataError", option |-> "",
                            file |-> "tickets", row |-> badTicket]


(***************************************************************************)
(* Properties of the translator.                                           *)
(***************************************************************************)
\* the text with every reference ticket:<id>, <id> being all the digits
\* that follow, replaced by issue #<n> for the n the map has for the id; an
\* error when the map has no n for the id of a reference
RECURSIVE Rewritten(_, _)
Rewritten(text, pos) ==
    IF pos > Len(text) THEN [text |-> "", error |-> NoError]
    ELSE LET isReference == /\ pos + 7 <= Len(text)
                            /\ SubSeq(text, pos, pos + 6) = "ticket:"
                            /\ CharAt(text, pos + 7) \in DigitChars
             end == RunEnd(text, pos + 7, DigitChars)
             id == Long(SubSeq(text, pos + 7, end))
             rest == Rewritten(text, IF isReference THEN end + 1 ELSE pos + 1)
         IN  IF isReference /\ id \notin DOMAIN ticketsToIssuesMap
             THEN [text |-> "", error |-> KeyError]
             ELSE IF rest.error # NoError THEN rest
             ELSE [text |-> (IF isReference
                             THEN "issue #" \o Decimal(ticketsToIssuesMap[id])
                             ELSE CharAt(text, pos)) \o rest.text,
                   error |-> NoError]

\* C23: translate replaces every reference ticket:<id> of the text by
\* issue #<n>, n being the entry of ticketsToIssuesMap for the id, whatever
\* the number of digits of the id, and raises a KeyError when the id of a
\* reference is no key of the map
ReferencesRewritten ==
    translated # <<>> => translated[1] = Rewritten(sourceText, 1)


(***************************************************************************)
(* Properties of the conversion of a ticket.                               *)
(***************************************************************************)
\* the issues the runs added to the repository
IssuesAdded == SubSeq(repo.issues, Len(repoAtStart.issues) + 1, Len(repo.issues))

\* the calls with this name made for the ticket of this row
CalledAt(name, row) ==
    SelectSeq(calls, LAMBDA call : call.name = name /\ call.row = row)

\* C24: the texts go to the tracker as they are in the CSV files: title and
\* body of a create_issue call are the summary and the description of the
\* ticket's row, the body of a create_comment call is the body of the
\* comment's row, and the issues of the repository hold these texts; Trac
\* markup such as a reference ticket:1 is not translated
TextsUnchanged ==
    /\ \A k \in PositionsOf(calls, "create_issue") :
           /\ calls[k].args.title = ticketsCsv[calls[k].row][8]
           /\ calls[k].args.body = ticketsCsv[calls[k].row][9]
    /\ \A row \in 2..Len(ticketsCsv) :
           \A k \in 1..Len(CalledAt("create_comment", row)) :
               CalledAt("create_comment", row)[k].args.body
                   = BodiesOf(Long(ticketsCsv[row][1]))[k]
    /\ history = <<>> =>
           \A k \in 1..Len(IssuesAdded) :
               /\ k <= Len(Returned(calls, "create_issue"))
               /\ IssuesAdded[k].title = ticketsCsv[Returned(calls, "create_issue")[k].row][8]
               /\ IssuesAdded[k].body = ticketsCsv[Returned(calls, "create_issue")[k].row][9]
               /\ \A c \in 1..Len(IssuesAdded[k].comments) :
                      IssuesAdded[k].comments[c]
                          = BodiesOf(Long(ticketsCsv[Returned(calls, "create_issue")[k].row][1]))[c]

\* a ticket and a comment that refer to ticket 1 in Trac markup have
\* become an issue and a comment with the same text
TextsUnchangedWitness ==
    /\ ~pretend
    /\ pc = "done"
    /\ Len(IssuesAdded) = 1
    /\ IssuesAdded[1].body = "see ticket:1"
    /\ IssuesAdded[1].comments = <<"first", "as in ticket:1">>
    /\ Returned(calls, "create_issue")[1].args.body = "see ticket:1"
    /\ Returned(calls, "create_comment")[2].args.body = "as in ticket:1"


\* the calls a step adds
NewCalls == SubSeq(calls', Len(calls) + 1, Len(calls'))

\* an edit of the labels of an issue
IsLabelEdit(call) == call.name = "edit" /\ "labels" \in DOMAIN call.args

\* an edit of the state of an issue
IsStateEdit(call) == call.name = "edit" /\ "state" \in DOMAIN call.args

\* the labels of the ticket at hand: the first-listed one for its type, then
\* the first-listed one for its resolution
LabelsOfTicket ==
    FirstListed(labelTransformations.transformations, "type", ticketMap.type)
        \o FirstListed(labelTransformations.transformations, "resolution",
                       ticketMap.resolution)

\* C25: once the issue of a ticket is created, the labels are edited if and
\* only if the run is real and the type or the resolution of the ticket has
\* a label: the edit is on the issue just created, with the label of the
\* type before the one of the resolution, at most two labels, all of them
\* labels of the repository; no other step edits labels
LabelEditWhenLabelled ==
    [][/\ pc = "label" =>
              IF ~pretend /\ LabelsOfTicket # <<>>
              THEN /\ Len(NewCalls) = 1
                   /\ NewCalls[1].row = rowIndex
                   /\ IsLabelEdit(NewCalls[1])
                   /\ NewCalls[1].args = [issue |-> issue.number,
                                          labels |-> LabelsOfTicket]
                   /\ issue.number = repo.issues[Len(repo.issues)].number
                   /\ repo.issues[Len(repo.issues)].title = ticketsCsv[rowIndex][8]
                   /\ calls[Len(calls)].name = "create_issue"
                   /\ Len(LabelsOfTicket) <= 2
                   /\ Range(LabelsOfTicket) \subseteq RepoLabels
              ELSE NewCalls = <<>>
       /\ pc # "label" =>
              \A k \in 1..Len(NewCalls) : ~IsLabelEdit(NewCalls[k])]_vars

\* a real run has given the issue of a defect closed as wontfix the labels
\* bug and wontfix
LabelEditWhenLabelledWitness ==
    /\ ~pretend
    /\ pc = "done"
    /\ labelMapping = DefaultLabelMapping
    /\ Len(SelectSeq(calls, IsLabelEdit)) = 1
    /\ SelectSeq(calls, IsLabelEdit)[1].args.labels = <<"bug", "wontfix">>
    /\ ~SelectSeq(calls, IsLabelEdit)[1].raised
    /\ repo.issues[SelectSeq(calls, IsLabelEdit)[1].args.issue].labels = <<"bug", "wontfix">>


\* the calls of create_comment
CommentCalls == SelectSeq(calls, LAMBDA call : call.name = "create_comment")

\* all calls made for the ticket of this row
AllCalledAt(row) == SelectSeq(calls, LAMBDA call : call.row = row)

\* the number of the issue created for the ticket of this row in the first
\* run: the issues are numbered on from the ones the repository had
IssueNumberAt(row) ==
    Len(repoAtStart.issues)
        + Len(SelectSeq(Returned(calls, "create_issue"), LAMBDA call : call.row <= row))

\* the row holds a ticket that is converted
IsConvertedRow(row) ==
    /\ row \in 2..Len(ticketsCsv)
    /\ Len(ticketsCsv[row]) = TICKET_COLUMN_COUNT
    /\ IsLong(ticketsCsv[row][1])
    /\ IsToConvert(Long(ticketsCsv[row][1]))

\* the comments of the ticket of this row have all been dealt with
CommentsDone(row) ==
    \/ row < rowIndex
    \/ row = rowIndex /\ pc \in {"close", "tickets", "done"}

\* C26: create_comment is called only in a real run and only for converted
\* tickets, on the issue created for the ticket, with the bodies of the
\* comment rows of the ticket's id in the order of the comment file; once the
\* ticket's comments are done, there is exactly one call for each such row
CommentsPostedInOrder ==
    /\ pretend => CommentCalls = <<>>
    /\ \A k \in PositionsOf(calls, "create_comment") : IsConvertedRow(calls[k].row)
    /\ \A row \in 2..Len(ticketsCsv) :
           LET posted == CalledAt("create_comment", row)
           IN  /\ \A k \in 1..Len(posted) :
                      /\ k <= Len(BodiesOf(Long(ticketsCsv[row][1])))
                      /\ posted[k].args.body = BodiesOf(Long(ticketsCsv[row][1]))[k]
                      /\ posted[k].args.issue = IssueNumberAt(row)
                      /\ Len(CalledAt("create_issue", row)) = 1
                      /\ posted[k].raised => k = Len(posted)
               /\ ~pretend /\ IsConvertedRow(row) /\ CommentsDone(row) =>
                      /\ Len(posted) = Len(BodiesOf(Long(ticketsCsv[row][1])))
                      /\ \A k \in 1..Len(posted) : ~posted[k].raised

\* a real run has converted ticket 1, the only ticket: its two comments are
\* on the new issue in the order of the comment file, and the comment of
\* ticket 2, which is between them in the file, is on no issue
CommentsPostedInOrderWitness ==
    /\ ~pretend
    /\ pc = "done"
    /\ commentsCsv = DefaultComments
    /\ Len(ticketsCsv) = 2
    /\ [k \in 1..Len(CommentCalls) |->
           <<CommentCalls[k].row, CommentCalls[k].args.issue, CommentCalls[k].args.body>>]
         = << <<2, Len(repoAtStart.issues) + 1, "first">>,
              <<2, Len(repoAtStart.issues) + 1, "as in ticket:1">> >>
    /\ Len(IssuesAdded) = 1
    /\ IssuesAdded[1].comments = <<"first", "as in ticket:1">>


\* the positions of the edits of a state among the calls
StateEdits == {k \in 1..Len(calls) : IsStateEdit(calls[k])}

\* the ticket of this row has been dealt with completely
TicketDone(row) ==
    \/ row < rowIndex
    \/ row = rowIndex /\ pc \in {"tickets", "done"}

\* C27: an issue is closed only in a real run and only for a converted
\* ticket whose status is exactly closed: the edit is on the issue created
\* for the ticket, comes after a call for each of the ticket's comments and
\* is the last call made for the ticket; once such a ticket is dealt with in
\* a real run, the edit has been made, once
ClosedWhenStatusClosed ==
    /\ \A k \in StateEdits :
           /\ ~pretend
           /\ IsConvertedRow(calls[k].row)
           /\ ticketsCsv[calls[k].row][6] = "closed"
           /\ calls[k].args = [issue |-> IssueNumberAt(calls[k].row), state |-> "closed"]
           /\ \A j \in 1..Len(calls) : calls[j].row = calls[k].row => j <= k
           /\ Len(CalledAt("create_comment", calls[k].row))
                  = Len(BodiesOf(Long(ticketsCsv[calls[k].row][1])))
    /\ \A row \in 2..Len(ticketsCsv) :
           ~pretend /\ IsConvertedRow(row) /\ TicketDone(row)
                   /\ ticketsCsv[row][6] = "closed" =>
               \E k \in StateEdits :
                   /\ calls[k].row = row
                   /\ ~calls[k].raised
                   /\ \A j \in StateEdits : calls[j].row = row => j = k

\* a real run has dealt with a ticket whose status is closed with a blank
\* before it and then with a closed one that has two comments: only the
\* second issue is closed, by the last call of the run
ClosedWhenStatusClosedWitness ==
    /\ ~pretend
    /\ pc = "done"
    /\ Len(ticketsCsv) = 3
    /\ ticketsCsv[2][6] = " closed"
    /\ ticketsCsv[3][6] = "closed"
    /\ StateEdits = {Len(calls)}
    /\ calls[Len(calls)].row = 3
    /\ calls[Len(calls) - 1].name = "create_comment"
    /\ IssuesAdded[1].state = "open"
    /\ IssuesAdded[2].state = "closed"



(***************************************************************************)
(* Properties of the order of loading and converting.                      *)
(***************************************************************************)
LoadStages == {"comments", "issues", "milestones", "users", "labels"}

\* the positions of the calls that change the tracker
Mutations == {k \in 1..Len(calls) : calls[k].name \in MutatingCalls}

\* the calls with this name and this state as argument
Listed(name, state) ==
    SelectSeq(calls, LAMBDA call : call.name = name /\ call.args = [state |-> state])

\* the comment CSV has a row that cannot be read
CommentsRejected == Unreadable(commentsCsv, COMMENT_COLUMN_COUNT) # {}

\* the user mapping has an entry that is no mapping, that maps a Trac user
\* a second time or that maps to a user Github does not know
UserMappingRejected ==
    \E k \in 1..Len(EntriesOf(userMapping)) :
        \/ ~IsMapping(EntriesOf(userMapping)[k])
        \/ TargetOf(EntriesOf(userMapping)[k]) \notin HubUsers \cup {"*"}
        \/ Cardinality(EntriesFor(userMapping, SourceOf(EntriesOf(userMapping)[k]))) > 1

\* the label mapping names a label the repository does not have
LabelMappingRejected == ~(LabelsNamed(labelMapping) \subseteq RepoLabels)

\* everything migrateTickets loads is loaded
LoadComplete ==
    /\ Len(calls) >= 4
    /\ [k \in 1..4 |-> calls[k]]
         = AtRow(<<Made(Call("get_issues", [state |-> "open"])),
                   Made(Call("get_issues", [state |-> "closed"])),
                   Made(Call("get_milestones", [state |-> "open"])),
                   Made(Call("get_milestones", [state |-> "closed"]))>>, 0)
    /\ \A name \in {"get_issues", "get_milestones"}, state \in {"open", "closed"} :
           Len(Listed(name, state)) = 1
    /\ existingIssues = _createIssueMap(repoAtStart)
    /\ ~CommentsRejected
    /\ \A k \in 2..Len(commentsCsv) : Has(tracTicketToCommentsMap, Long(commentsCsv[k][1]))
    /\ \A ticketId \in DOMAIN tracTicketToCommentsMap :
           [k \in 1..Len(tracTicketToCommentsMap[ticketId]) |->
               tracTicketToCommentsMap[ticketId][k].body] = BodiesOf(ticketId)
    /\ ~UserMappingRejected
    /\ DOMAIN tracToGithubUserMap = SourcesOf(userMapping)
    /\ \A tracUser \in DOMAIN tracToGithubUserMap :
           /\ tracToGithubUserMap[tracUser] = TargetFor(userMapping, tracUser)
           /\ tracToGithubUserMap[tracUser] \in _validatedGithubUsers \cup {"*"}
    /\ ~LabelMappingRejected
    /\ Len(labelTransformations.transformations) = Len(RulesOf(labelMapping))
    /\ Len(CalledAt("get_labels", 0)) = IF labelMapping = "" THEN 0 ELSE 1

\* C28: everything is loaded before the first row of the ticket CSV is read
\* and before the first call that changes the tracker: a step of loading
\* reads no ticket row, logs nothing, makes only reading calls and leaves the
\* repository as it is, and it ends the run or goes on loading until the
\* ticket CSV is next; when the ticket CSV is about to be read, the load is
\* complete, so no comment row, user mapping or label was rejected; a later
\* step loads nothing again
LoadedBeforeTickets ==
    [][/\ pc \in LoadStages =>
              /\ rowIndex = 0 /\ rowIndex' = 0
              /\ ticketMap' = NoTicket
              /\ log = <<>> /\ log' = <<>>
              /\ Mutations = {}
              /\ repo = repoAtStart /\ repo' = repo
              /\ \A k \in 1..Len(NewCalls) :
                     NewCalls[k].row = 0 /\ NewCalls[k].name \in ReadCalls
              /\ pc' \in LoadStages \cup {"failed", "tickets"}
              /\ pc' = "tickets" => pc = "labels"
       /\ pc = "tickets" /\ rowIndex = 0 =>
              /\ LoadComplete
              /\ Mutations = {}
              /\ \A k \in 1..Len(calls) : calls[k].row = 0
       /\ pc \notin LoadStages =>
              /\ pc' \notin LoadStages
              /\ UNCHANGED <<tracTicketToCommentsMap, existingIssues,
                             tracToGithubUserMap, labelTransformations>>
              /\ \A k \in 1..Len(NewCalls) :
                     /\ NewCalls[k].row >= 2
                     /\ NewCalls[k].name \notin {"get_issues", "get_milestones", "get_labels"}]_vars

\* real runs have failed while loading, without a call that changes the
\* tracker: one for a comment row of three cells, one for a user mapping to
\* an unknown Github user, one for a label the repository does not have
LoadedBeforeTicketsWitness ==
    /\ ~pretend
    /\ pc = "failed"
    /\ rowIndex = 0
    /\ Mutations = {}
    /\ \/ CommentsRejected /\ error.type = "_CsvDataError" /\ calls = <<>>
       \/ UserMappingRejected /\ error = ConfigError(OPTION_USERS) /\ Len(calls) = 5
       \/ LabelMappingRejected /\ error = ConfigError(OPTION_LABELS) /\ Len(calls) >= 5
    /\ Len(ticketsCsv) >= 2


\* the first row of the ticket CSV after the header that cannot be read, if
\* it is one of the wrong length; 0 otherwise
MalformedTicketRow ==
    LET badTicket == FirstUnreadable(ticketsCsv, TICKET_COLUMN_COUNT)
    IN  IF badTicket > 0 /\ Len(ticketsCsv[badTicket]) # TICKET_COLUMN_COUNT
        THEN badTicket ELSE 0

\* the run has failed with the _CsvDataError of a row of the ticket CSV
TicketRowRaised == error.type = "_CsvDataError" /\ error.file = "tickets"

\* the rows before this one that hold a ticket to convert
ConvertedBefore(row) == {r \in 2..(row - 1) : IsConvertedRow(r)}

\* the milestones of the repository have one of this title, or it is empty
HasMilestone(title) ==
    title # "" => \E k \in 1..Len(repo.milestones) : repo.milestones[k].title = title

\* C29: the rows of the ticket CSV are read one at a time: a row of the
\* wrong length raises its _CsvDataError only once the run has come to it,
\* with every ticket of the rows before it dealt with completely (in a real
\* run its milestone and its issue with comments and state exist), and no
\* row after it is ever read, logged or the subject of a call
TicketRowsReadLazily ==
    /\ MalformedTicketRow > 0 =>
           /\ rowIndex <= MalformedTicketRow
           /\ \A k \in 1..Len(calls) : calls[k].row < MalformedTicketRow
           /\ \A k \in 1..Len(log) : log[k].row < MalformedTicketRow
    /\ TicketRowRaised =>
           /\ pc = "failed"
           /\ MalformedTicketRow > 0
           /\ rowIndex = MalformedTicketRow
           /\ error.row = MalformedTicketRow
           /\ \A row \in 2..(MalformedTicketRow - 1) :
                  Len(SelectSeq(log, LAMBDA line : line.row = row
                                    /\ line.text \in {"skip ticket", "convert ticket"})) = 1
           /\ \A row \in ConvertedBefore(MalformedTicketRow) :
                  /\ TicketDone(row)
                  /\ Len(Logged(log, "convert ticket")) = Cardinality(ConvertedBefore(MalformedTicketRow))
                  /\ ~pretend =>
                         /\ Len(CalledAt("create_issue", row)) = 1
                         /\ \A k \in 1..Len(AllCalledAt(row)) : ~AllCalledAt(row)[k].raised
                         /\ Len(IssuesAdded) = Cardinality(ConvertedBefore(MalformedTicketRow))
                         /\ IssueNumberAt(row) \in 1..Len(repo.issues)
                         /\ repo.issues[IssueNumberAt(row)].title = ticketsCsv[row][8]
                         /\ repo.issues[IssueNumberAt(row)].comments
                                = BodiesOf(Long(ticketsCsv[row][1]))
                         /\ repo.issues[IssueNumberAt(row)].state
                                = IF ticketsCsv[row][6] = "closed" THEN "closed" ELSE "open"
                         /\ HasMilestone(Strip(ticketsCsv[row][5]))

\* a real run over a ticket followed by a row of three cells has failed at
\* that row with the issue and the milestone of the ticket created, the
\* comments added and the issue closed
TicketRowsReadLazilyWitness ==
    /\ ~pretend
    /\ TicketRowRaised
    /\ Len(ticketsCsv) = 3
    /\ Len(ticketsCsv[3]) = 3
    /\ error.row = 3
    /\ Len(IssuesAdded) = 1
    /\ IssuesAdded[1].state = "closed"
    /\ IssuesAdded[1].comments = <<"first", "as in ticket:1">>
    /\ Len(repo.milestones) = 1
    /\ calls[Len(calls)].row = 2



(***************************************************************************)
(* Properties of the authors of comments.                                  *)
(***************************************************************************)
\* the authors of the comments of a ticket, in the order of the comment CSV
AuthorsOf(ticketId) ==
    LET rows == SelectSeq(SubSeq(commentsCsv, 2, Len(commentsCsv)),
                    LAMBDA row : /\ Len(row) = COMMENT_COLUMN_COUNT
                                 /\ IsLong(row[1])
                                 /\ Long(row[1]) = ticketId)
    IN  [k \in 1..Len(rows) |-> rows[k][3]]

\* the user mapping has neither an entry for the Trac user nor one for *
Unmapped(tracUser) ==
    /\ tracUser \notin SourcesOf(userMapping)
    /\ "*" \notin SourcesOf(userMapping)

\* the places of the comments of a ticket whose author is not mapped
UnmappedAuthors(ticketId) ==
    {k \in 1..Len(AuthorsOf(ticketId)) : Unmapped(AuthorsOf(ticketId)[k])}

\* the run has failed for the user mapping after it has logged the
\* conversion of the ticket at hand
FailedAtComment ==
    /\ pc = "failed"
    /\ error = ConfigError(OPTION_USERS)
    /\ rowIndex >= 2
    /\ \E k \in 1..Len(log) : log[k].row = rowIndex /\ log[k].text = "convert ticket"

\* C30: the author of a comment is resolved through the user mapping when
\* the comment is about to be added, after the issue of its ticket is
\* created, and is not looked up at Github: a run, dry or real, does not get
\* past a comment whose author has neither an entry nor the entry for * and
\* fails there with the _ConfigError of the user mapping; in a real run the
\* issue of the ticket then exists, open, with the comments before that one
\* only
CommentAuthorsUnchecked ==
    /\ \A row \in 2..Len(ticketsCsv) :
           IsConvertedRow(row) /\ CommentsDone(row) =>
               UnmappedAuthors(Long(ticketsCsv[row][1])) = {}
    /\ FailedAtComment =>
           LET ticketId == Long(ticketsCsv[rowIndex][1])
               first == CHOOSE k \in UnmappedAuthors(ticketId) :
                            \A j \in UnmappedAuthors(ticketId) : k <= j
           IN  /\ UnmappedAuthors(ticketId) # {}
               /\ commentIndex = first
               /\ Len(SelectSeq(log, LAMBDA line : line.row = rowIndex
                                    /\ line.text = "add comment by")) = first - 1
               /\ ~pretend =>
                      /\ Len(CalledAt("create_issue", rowIndex)) = 1
                      /\ calls[Len(calls)].row = rowIndex
                      /\ ~calls[Len(calls)].raised
                      /\ ~IsStateEdit(calls[Len(calls)])
                      /\ repo.issues[IssueNumberAt(rowIndex)].title = ticketsCsv[rowIndex][8]
                      /\ repo.issues[IssueNumberAt(rowIndex)].state = "open"
                      /\ repo.issues[IssueNumberAt(rowIndex)].comments
                             = SubSeq(BodiesOf(ticketId), 1, first - 1)
               /\ pretend => Mutations = {} /\ repo = repoAtStart
    /\ \A k \in PositionsOf(calls, "get_user") :
           calls[k].row >= 2 =>
               /\ \A j \in 1..k : calls[j].row = calls[k].row => calls[j].name = "get_user"
               /\ Len(CalledAt("get_user", calls[k].row)) = 1
    /\ \A row \in 2..Len(ticketsCsv) :
           LET lines == SelectSeq(log, LAMBDA line : line.row = row
                                     /\ line.text = "add comment by")
           IN  \A k \in 1..Len(lines) :
                   lines[k].args[1]
                       = Resolved(userMapping, AuthorsOf(Long(ticketsCsv[row][1]))[k])

\* a real run with the user mapping hugo: sepp has created the issue of
\* ticket 2, added the comment by hugo and failed at the comment by anna:
\* the issue is open and has the first comment only
CommentAuthorsUncheckedWitness ==
    /\ ~pretend
    /\ FailedAtComment
    /\ userMapping = "hugo: sepp"
    /\ AuthorsOf(2) = <<"hugo", "anna">>
    /\ Len(IssuesAdded) = 1
    /\ IssuesAdded[1].state = "open"
    /\ IssuesAdded[1].comments = <<"first">>
    /\ calls[Len(calls)].name = "create_comment"

====
